---- MODULE Spec2Model ----
(***************************************************************************)
(* The iterable containment and ordering matchers of speculoos             *)
(* (src/src/iter.rs): contains / does_not_contain, contains_all_of,        *)
(* equals_iterator, matching_contains and mapped_contains, as a state      *)
(* machine.  One matcher invocation runs at a time; every loop iteration   *)
(* of the source is one step.  Elements are small integers, compared by    *)
(* integer equality and rendered by their Debug form.                      *)
(***************************************************************************)
EXTENDS Integers, Sequences, FiniteSets, TLC

(* ------------------------------ bounds -------------------------------- *)

\* longest subject and longest expected list
MaxLen == 3
\* elements are drawn from 1..MaxVal
MaxVal == 2

Values == 1..MaxVal

SeqsUpTo(n) == UNION {[1..k -> Values] : k \in 0..n}

Subjects == SeqsUpTo(MaxLen)

ExpectedLists == SeqsUpTo(MaxLen)

\* the closures handed to matching_contains: a predicate is the set of the
\* elements it accepts
Predicates == SUBSET Values

\* the closures handed to mapped_contains
MappingFunctions == [Values -> Values]

(* ------------------------------- state -------------------------------- *)

VARIABLES
    pc,                      \* position of the running matcher
    matcher,                 \* name of the matcher invoked on the handle
    subject,                 \* Spec.subject: the elements under test
    expected_value,          \* contains / does_not_contain / mapped_contains
    expected_values,         \* contains_all_of / equals_iterator
    should_contain,          \* check_iterator_contains
    contains_value,          \* check_iterator_contains
    actual,                  \* check_iterator_contains, matching_contains
    actual_pulls,            \* calls of next() on the subject's iterator
    expected_pulls,          \* calls of next() on the expected iterator
    actual_values,           \* check_iterator_contains_all_of
    matched_indexes,         \* check_iterator_contains_all_of
    matched_indexes_holder,  \* check_iterator_contains_all_of
    matched_values,          \* check_iterator_contains_all_of
    unmatched_values,        \* check_iterator_contains_all_of
    expected,                \* loop variable of 'outer
    scan_index,              \* next index the enumerate() of the inner loop yields
    comparisons,             \* calls of expected.eq(actual) in the inner loop
    read_subject,            \* compare_iterators
    read_expected,           \* compare_iterators
    predicate,               \* the closure of matching_contains
    mapping_function,        \* the closure of mapped_contains
    mapped_vec,              \* mapped_contains
    calls,                   \* elements the closure was invoked on, in order
    failure,                 \* what the matcher handed to AssertionFailure
    subject_kind,            \* which impl the handle's subject selects
    handle,                  \* the Spec a facade assertion is invoked on
    argument,                \* the argument of a facade assertion
    returned,                \* the Spec a narrowing assertion returns
    parked,                  \* the frame of the invocation that is not running
    running                  \* the invocation whose frame is in the variables

call_vars == <<matcher, subject, expected_value, expected_values,
               should_contain, predicate, mapping_function, subject_kind>>

contains_vars == <<contains_value, actual>>

all_of_vars == <<actual_values, matched_indexes, matched_indexes_holder,
                 matched_values, unmatched_values, expected, scan_index,
                 comparisons>>

compare_vars == <<read_subject, read_expected>>

mapping_vars == <<mapped_vec, calls>>

iter_vars == <<actual_pulls, expected_pulls>>

facade_vars == <<handle, argument, returned>>

sched_vars == <<parked, running>>

vars == <<pc, call_vars, contains_vars, all_of_vars, compare_vars,
          mapping_vars, iter_vars, failure, facade_vars, sched_vars>>

(* ------------------------- Debug formatting --------------------------- *)

\* {:?} of an integer element
Debug(x) == ToString(x)

RECURSIVE DebugItems(_)
DebugItems(s) ==
    IF Len(s) = 0 THEN ""
    ELSE IF Len(s) = 1 THEN Debug(s[1])
    ELSE Debug(s[1]) \o ", " \o DebugItems(Tail(s))

\* {:?} of a Vec
DebugVec(s) == "[" \o DebugItems(s) \o "]"

(* ------------------------- failure records ---------------------------- *)

NoFailure == [kind |-> "none", expected |-> "", actual |-> "", message |-> ""]

\* AssertionFailure::from_spec(spec).with_expected(e).with_actual(a).fail()
ExpectedActual(e, a) ==
    [kind |-> "expected_actual", expected |-> e, actual |-> a, message |-> ""]

\* AssertionFailure::from_spec(spec).fail_with_message(m)
SingleMessage(m) ==
    [kind |-> "message", expected |-> "", actual |-> "", message |-> m]

\* the text a raised failure panics with: fail() renders the two parts,
\* fail_with_message() the single message
panic_message(f) ==
    IF f.kind = "expected_actual"
    THEN "\n\texpected: " \o f.expected \o "\n\t but was: " \o f.actual
    ELSE "\n\t" \o f.message

(* --------------------------- subject handles -------------------------- *)

\* Spec { subject, subject_name, location, description }; `type` is the type
\* parameter of the Spec and selects the impl an assertion resolves to
NoHandle ==
    [present |-> FALSE, type |-> "none", subject |-> 0, subject_name |-> "",
     location |-> "", description |-> ""]

\* no second invocation exists
NoFrame == [pc |-> "none"]

matcher_args == <<subject, expected_value, expected_values, should_contain,
                  predicate, mapping_function, subject_kind>>

iter_locals == <<contains_vars, all_of_vars, compare_vars, mapping_vars, iter_vars>>

(* ----------------------- iterators over a Vec ------------------------- *)

\* the value of the n-th call of next() on an iterator over s (n >= 1)
HasNext(s, pulls) == pulls < Len(s)

Next_item(s, pulls) == s[pulls + 1]

(* ------------------------------- Init --------------------------------- *)

IdentityFn == [x \in Values |-> x]

Init ==
    /\ pc = "idle"
    /\ matcher = "none"
    /\ subject = <<>>
    /\ expected_value = 0
    /\ expected_values = <<>>
    /\ should_contain = TRUE
    /\ contains_value = FALSE
    /\ actual = <<>>
    /\ actual_pulls = 0
    /\ expected_pulls = 0
    /\ actual_values = <<>>
    /\ matched_indexes = <<>>
    /\ matched_indexes_holder = <<>>
    /\ matched_values = <<>>
    /\ unmatched_values = <<>>
    /\ expected = 0
    /\ scan_index = 0
    /\ comparisons = 0
    /\ read_subject = <<>>
    /\ read_expected = <<>>
    /\ predicate = {}
    /\ mapping_function = IdentityFn
    /\ mapped_vec = <<>>
    /\ calls = <<>>
    /\ failure = NoFailure
    /\ subject_kind = "IntoIterator"
    /\ handle = NoHandle
    /\ argument = 0
    /\ returned = NoHandle
    /\ parked = NoFrame
    /\ running = 1

\* the handle is built by assert_that(&subject) and one matcher is invoked
Invoke(name, s) ==
    /\ matcher' = name
    /\ subject' = s
    /\ subject_kind' = "IntoIterator"

(* ------------- contains / does_not_contain (single value) ------------- *)

panic_unmatched(exp, act, should) ==
    LET condition == IF should THEN " " ELSE " not "
    IN  ExpectedActual("iterator to" \o condition \o "contain <" \o exp \o ">",
                       "<" \o act \o ">")

contains_call(s, v) ==
    /\ Invoke("contains", s)
    /\ expected_value' = v
    /\ should_contain' = TRUE
    /\ contains_value' = FALSE
    /\ actual' = <<>>
    /\ actual_pulls' = 0
    /\ pc' = "check_iterator_contains"
    /\ UNCHANGED <<expected_values, predicate, mapping_function, expected_pulls,
                   all_of_vars, compare_vars, mapping_vars, failure>>

contains ==
    /\ pc = "idle"
    /\ \E s \in Subjects, v \in Values : contains_call(s, v)
    /\ UNCHANGED <<facade_vars, sched_vars>>

does_not_contain_call(s, v) ==
    /\ Invoke("does_not_contain", s)
    /\ expected_value' = v
    /\ should_contain' = FALSE
    /\ contains_value' = FALSE
    /\ actual' = <<>>
    /\ actual_pulls' = 0
    /\ pc' = "check_iterator_contains"
    /\ UNCHANGED <<expected_values, predicate, mapping_function, expected_pulls,
                   all_of_vars, compare_vars, mapping_vars, failure>>

does_not_contain ==
    /\ pc = "idle"
    /\ \E s \in Subjects, v \in Values : does_not_contain_call(s, v)
    /\ UNCHANGED <<facade_vars, sched_vars>>

\* mutant: the flag is overwritten by every comparison
check_iterator_contains_step_overwrite ==
    /\ pc = "check_iterator_contains"
    /\ HasNext(subject, actual_pulls)
    /\ LET x == Next_item(subject, actual_pulls)
       IN  /\ contains_value' = (expected_value = x)
           /\ actual' = Append(actual, x)
    /\ actual_pulls' = actual_pulls + 1
    /\ UNCHANGED <<pc, call_vars, expected_pulls, all_of_vars, compare_vars,
                   mapping_vars, failure>>
    /\ UNCHANGED <<facade_vars, sched_vars>>

\* mutant: the scan stops at the first element equal to the expected value
check_iterator_contains_step_break ==
    /\ pc = "check_iterator_contains"
    /\ HasNext(subject, actual_pulls)
    /\ LET x == Next_item(subject, actual_pulls)
       IN  /\ contains_value' = (IF expected_value = x THEN TRUE ELSE contains_value)
           /\ actual' = Append(actual, x)
           /\ actual_pulls' = (IF expected_value = x THEN Len(subject)
                               ELSE actual_pulls + 1)
    /\ UNCHANGED <<pc, call_vars, expected_pulls, all_of_vars, compare_vars,
                   mapping_vars, failure>>
    /\ UNCHANGED <<facade_vars, sched_vars>>

\* mutant: the loop advances the iterator of the handle, not one made from it
check_iterator_contains_step_consumes ==
    /\ pc = "check_iterator_contains"
    /\ HasNext(subject, actual_pulls)
    /\ LET x == Next_item(subject, actual_pulls)
       IN  /\ contains_value' = (IF expected_value = x THEN TRUE ELSE contains_value)
           /\ actual' = Append(actual, x)
    /\ subject' = Tail(subject)
    /\ actual_pulls' = actual_pulls
    /\ UNCHANGED <<pc, matcher, expected_value, expected_values, should_contain,
                   predicate, mapping_function, subject_kind, expected_pulls,
                   all_of_vars, compare_vars, mapping_vars, failure>>
    /\ UNCHANGED <<facade_vars, sched_vars>>

\* mutant: each comparison overwrites the flag
check_iterator_contains_step_last_wins ==
    /\ pc = "check_iterator_contains"
    /\ HasNext(subject, actual_pulls)
    /\ LET x == Next_item(subject, actual_pulls)
       IN  /\ contains_value' = (expected_value = x)
           /\ actual' = Append(actual, x)
    /\ actual_pulls' = actual_pulls + 1
    /\ UNCHANGED <<pc, call_vars, expected_pulls, all_of_vars, compare_vars,
                   mapping_vars, failure>>
    /\ UNCHANGED <<facade_vars, sched_vars>>

\* one iteration of `for x in actual_iter`
check_iterator_contains_step ==
    /\ pc = "check_iterator_contains"
    /\ HasNext(subject, actual_pulls)
    /\ LET x == Next_item(subject, actual_pulls)
       IN  /\ contains_value' = (IF expected_value = x THEN TRUE ELSE contains_value)
           /\ actual' = Append(actual, x)
    /\ actual_pulls' = actual_pulls + 1
    /\ UNCHANGED <<pc, call_vars, expected_pulls, all_of_vars, compare_vars,
                   mapping_vars, failure>>
    /\ UNCHANGED <<facade_vars, sched_vars>>

\* mutant: a scan that pushed nothing returns before the flag is compared
check_iterator_contains_end_empty_returns ==
    /\ pc = "check_iterator_contains"
    /\ ~HasNext(subject, actual_pulls)
    /\ actual_pulls' = actual_pulls + 1
    /\ IF actual # <<>> /\ contains_value # should_contain
       THEN /\ failure' = panic_unmatched(Debug(expected_value), DebugVec(actual),
                                          should_contain)
            /\ pc' = "failed"
       ELSE /\ failure' = failure
            /\ pc' = "passed"
    /\ UNCHANGED <<call_vars, contains_vars, expected_pulls, all_of_vars,
                   compare_vars, mapping_vars>>
    /\ UNCHANGED <<facade_vars, sched_vars>>

\* the iterator is exhausted: `if contains_value != should_contain`
check_iterator_contains_end ==
    /\ pc = "check_iterator_contains"
    /\ ~HasNext(subject, actual_pulls)
    /\ actual_pulls' = actual_pulls + 1
    /\ IF contains_value # should_contain
       THEN /\ failure' = panic_unmatched(Debug(expected_value), DebugVec(actual),
                                          should_contain)
            /\ pc' = "failed"
       ELSE /\ failure' = failure
            /\ pc' = "passed"
    /\ UNCHANGED <<call_vars, contains_vars, expected_pulls, all_of_vars,
                   compare_vars, mapping_vars>>
    /\ UNCHANGED <<facade_vars, sched_vars>>

(* ------------------- contains_all_of (multi value) -------------------- *)

\* Vec::contains
VecContains(v, x) == \E k \in 1..Len(v) : v[k] = x

\* mutant: the filter on matched_indexes is missing
FilteredIndexes_unfiltered(from) == from..(Len(actual_values) - 1)

\* the indexes (from 0) that `.enumerate().filter(|&(i, _)| !matched_indexes.contains(&i))`
\* still yields once enumerate() has handed out the indexes below `from`
FilteredIndexes(from) ==
    {i \in from..(Len(actual_values) - 1) : ~VecContains(matched_indexes, i)}

Min(S) == CHOOSE i \in S : \A j \in S : i <= j

\* mutant: matched_indexes is not a fresh vec of the invocation
contains_all_of_call_keeps_matched_indexes(s, e) ==
    /\ Invoke("contains_all_of", s)
    /\ expected_values' = e
    /\ actual_values' = s
    /\ actual_pulls' = Len(s) + 1
    /\ expected_pulls' = 0
    /\ matched_indexes' = matched_indexes \o matched_indexes_holder
    /\ matched_indexes_holder' = <<>>
    /\ matched_values' = <<>>
    /\ unmatched_values' = <<>>
    /\ comparisons' = 0
    /\ pc' = "outer"
    /\ UNCHANGED <<expected_value, should_contain, predicate, mapping_function,
                   expected, scan_index, contains_vars, compare_vars,
                   mapping_vars, failure>>

contains_all_of_call(s, e) ==
    /\ Invoke("contains_all_of", s)
    /\ expected_values' = e
    /\ actual_values' = s
    /\ actual_pulls' = Len(s) + 1
    /\ expected_pulls' = 0
    /\ matched_indexes' = <<>>
    /\ matched_indexes_holder' = <<>>
    /\ matched_values' = <<>>
    /\ unmatched_values' = <<>>
    /\ comparisons' = 0
    /\ pc' = "outer"
    /\ UNCHANGED <<expected_value, should_contain, predicate, mapping_function,
                   expected, scan_index, contains_vars, compare_vars,
                   mapping_vars, failure>>

contains_all_of ==
    /\ pc = "idle"
    /\ \E s \in Subjects, e \in ExpectedLists : contains_all_of_call(s, e)
    /\ UNCHANGED <<facade_vars, sched_vars>>

\* mutant: the holder is not appended to matched_indexes before the scan
contains_all_of_outer_holder_kept ==
    /\ pc = "outer"
    /\ HasNext(expected_values, expected_pulls)
    /\ expected' = Next_item(expected_values, expected_pulls)
    /\ expected_pulls' = expected_pulls + 1
    /\ scan_index' = 0
    /\ comparisons' = comparisons
    /\ pc' = "inner"
    /\ UNCHANGED <<call_vars, actual_pulls, actual_values, matched_values,
                   matched_indexes, matched_indexes_holder,
                   unmatched_values, contains_vars, compare_vars, mapping_vars,
                   failure>>
    /\ UNCHANGED <<facade_vars, sched_vars>>

\* mutant: the inner scan goes on from where the previous one stopped
contains_all_of_outer_scan_resumes ==
    /\ pc = "outer"
    /\ HasNext(expected_values, expected_pulls)
    /\ expected' = Next_item(expected_values, expected_pulls)
    /\ expected_pulls' = expected_pulls + 1
    /\ matched_indexes' = matched_indexes \o matched_indexes_holder
    /\ matched_indexes_holder' = <<>>
    /\ scan_index' = scan_index
    /\ comparisons' = comparisons
    /\ pc' = "inner"
    /\ UNCHANGED <<call_vars, actual_pulls, actual_values, matched_values,
                   unmatched_values, contains_vars, compare_vars, mapping_vars,
                   failure>>
    /\ UNCHANGED <<facade_vars, sched_vars>>

\* `'outer: for expected in expected_values_iter` yields the next expected value
contains_all_of_outer ==
    /\ pc = "outer"
    /\ HasNext(expected_values, expected_pulls)
    /\ expected' = Next_item(expected_values, expected_pulls)
    /\ expected_pulls' = expected_pulls + 1
    /\ matched_indexes' = matched_indexes \o matched_indexes_holder
    /\ matched_indexes_holder' = <<>>
    /\ scan_index' = 0
    /\ comparisons' = comparisons
    /\ pc' = "inner"
    /\ UNCHANGED <<call_vars, actual_pulls, actual_values, matched_values,
                   unmatched_values, contains_vars, compare_vars, mapping_vars,
                   failure>>
    /\ UNCHANGED <<facade_vars, sched_vars>>

\* mutant: of the free indexes with an equal element the last one is taken
contains_all_of_inner_match_last ==
    /\ pc = "inner"
    /\ FilteredIndexes(scan_index) # {}
    /\ LET index == Min(FilteredIndexes(scan_index))
           equal == {i \in FilteredIndexes(scan_index) : actual_values[i + 1] = expected}
           last == CHOOSE i \in equal : \A j \in equal : j <= i
       IN  /\ expected = actual_values[index + 1]
           /\ matched_indexes_holder' = Append(matched_indexes_holder, last)
           /\ matched_values' = Append(matched_values, expected)
           /\ scan_index' = last + 1
           /\ comparisons' = comparisons + 1
    /\ pc' = "outer"
    /\ UNCHANGED <<call_vars, iter_vars, actual_values, matched_indexes,
                   unmatched_values, expected, contains_vars, compare_vars,
                   mapping_vars, failure>>
    /\ UNCHANGED <<facade_vars, sched_vars>>

\* mutant: the index of the matched element is not recorded
contains_all_of_inner_match_index_not_pushed ==
    /\ pc = "inner"
    /\ FilteredIndexes(scan_index) # {}
    /\ LET index == Min(FilteredIndexes(scan_index))
       IN  /\ expected = actual_values[index + 1]
           /\ matched_values' = Append(matched_values, expected)
           /\ scan_index' = index + 1
           /\ comparisons' = comparisons + 1
    /\ pc' = "outer"
    /\ UNCHANGED <<call_vars, iter_vars, actual_values, matched_indexes,
                   matched_indexes_holder,
                   unmatched_values, expected, contains_vars, compare_vars,
                   mapping_vars, failure>>
    /\ UNCHANGED <<facade_vars, sched_vars>>

\* the inner loop yields an index whose element equals `expected`
contains_all_of_inner_match ==
    /\ pc = "inner"
    /\ FilteredIndexes(scan_index) # {}
    /\ LET index == Min(FilteredIndexes(scan_index))
       IN  /\ expected = actual_values[index + 1]
           /\ matched_indexes_holder' = Append(matched_indexes_holder, index)
           /\ matched_values' = Append(matched_values, expected)
           /\ scan_index' = index + 1
           /\ comparisons' = comparisons + 1
    /\ pc' = "outer"
    /\ UNCHANGED <<call_vars, iter_vars, actual_values, matched_indexes,
                   unmatched_values, expected, contains_vars, compare_vars,
                   mapping_vars, failure>>
    /\ UNCHANGED <<facade_vars, sched_vars>>

\* the inner loop yields an index whose element differs from `expected`
contains_all_of_inner_mismatch ==
    /\ pc = "inner"
    /\ FilteredIndexes(scan_index) # {}
    /\ LET index == Min(FilteredIndexes(scan_index))
       IN  /\ expected # actual_values[index + 1]
           /\ scan_index' = index + 1
           /\ comparisons' = comparisons + 1
    /\ UNCHANGED <<pc, call_vars, iter_vars, actual_values, matched_indexes,
                   matched_indexes_holder, matched_values, unmatched_values,
                   expected, contains_vars, compare_vars, mapping_vars, failure>>
    /\ UNCHANGED <<facade_vars, sched_vars>>

\* the inner loop runs out: `unmatched_values.push(expected)`
contains_all_of_inner_exhausted ==
    /\ pc = "inner"
    /\ FilteredIndexes(scan_index) = {}
    /\ unmatched_values' = Append(unmatched_values, expected)
    /\ scan_index' = Len(actual_values)
    /\ comparisons' = comparisons
    /\ pc' = "outer"
    /\ UNCHANGED <<call_vars, iter_vars, actual_values, matched_indexes,
                   matched_indexes_holder, matched_values, expected,
                   contains_vars, compare_vars, mapping_vars, failure>>
    /\ UNCHANGED <<facade_vars, sched_vars>>

\* mutant: the expected values are reported in their original order
contains_all_of_end_original_order ==
    /\ pc = "outer"
    /\ ~HasNext(expected_values, expected_pulls)
    /\ expected_pulls' = expected_pulls + 1
    /\ IF unmatched_values # <<>>
       THEN /\ failure' =
                 ExpectedActual("iterator to contain items <"
                                    \o DebugVec(expected_values) \o ">",
                                "<" \o DebugVec(actual_values) \o ">")
            /\ pc' = "failed"
       ELSE /\ failure' = failure
            /\ pc' = "passed"
    /\ UNCHANGED <<call_vars, actual_pulls, all_of_vars, contains_vars,
                   compare_vars, mapping_vars>>
    /\ UNCHANGED <<facade_vars, sched_vars>>

\* the expected values are exhausted: `if !unmatched_values.is_empty()`
contains_all_of_end ==
    /\ pc = "outer"
    /\ ~HasNext(expected_values, expected_pulls)
    /\ expected_pulls' = expected_pulls + 1
    /\ IF unmatched_values # <<>>
       THEN /\ failure' =
                 ExpectedActual("iterator to contain items <"
                                    \o DebugVec(matched_values \o unmatched_values)
                                    \o ">",
                                "<" \o DebugVec(actual_values) \o ">")
            /\ pc' = "failed"
       ELSE /\ failure' = failure
            /\ pc' = "passed"
    /\ UNCHANGED <<call_vars, actual_pulls, all_of_vars, contains_vars,
                   compare_vars, mapping_vars>>
    /\ UNCHANGED <<facade_vars, sched_vars>>

(* ------------------ equals_iterator (sequence equality) ---------------- *)

IteratorItem(item, read) ==
    "Iterator item of <" \o Debug(item) \o "> (read <" \o DebugVec(read) \o ">)"

CompletedIterator(read) == "Completed iterator (read <" \o DebugVec(read) \o ">)"

equals_iterator_call(s, e) ==
    /\ Invoke("equals_iterator", s)
    /\ expected_values' = e
    /\ actual_pulls' = 0
    /\ expected_pulls' = 0
    /\ read_subject' = <<>>
    /\ read_expected' = <<>>
    /\ pc' = "compare_iterators"
    /\ UNCHANGED <<expected_value, should_contain, predicate, mapping_function,
                   contains_vars, all_of_vars, mapping_vars, failure>>

equals_iterator ==
    /\ pc = "idle"
    /\ \E s \in Subjects, e \in ExpectedLists : equals_iterator_call(s, e)
    /\ UNCHANGED <<facade_vars, sched_vars>>

\* mutant: the pair is pushed on the read traces before it is compared
compare_iterators_some_some_push_first ==
    /\ pc = "compare_iterators"
    /\ HasNext(subject, actual_pulls)
    /\ HasNext(expected_values, expected_pulls)
    /\ actual_pulls' = actual_pulls + 1
    /\ expected_pulls' = expected_pulls + 1
    /\ LET act == Next_item(subject, actual_pulls)
           exp == Next_item(expected_values, expected_pulls)
       IN  /\ read_subject' = Append(read_subject, act)
           /\ read_expected' = Append(read_expected, exp)
           /\ IF act # exp
              THEN /\ failure' = ExpectedActual(IteratorItem(exp, read_expected'),
                                                IteratorItem(act, read_subject'))
                   /\ pc' = "failed"
              ELSE UNCHANGED <<pc, failure>>
    /\ UNCHANGED <<call_vars, contains_vars, all_of_vars, mapping_vars>>
    /\ UNCHANGED <<facade_vars, sched_vars>>

\* mutant: the mismatch is recorded and the comparison goes on
compare_iterators_some_some_continue ==
    /\ pc = "compare_iterators"
    /\ HasNext(subject, actual_pulls)
    /\ HasNext(expected_values, expected_pulls)
    /\ actual_pulls' = actual_pulls + 1
    /\ expected_pulls' = expected_pulls + 1
    /\ LET act == Next_item(subject, actual_pulls)
           exp == Next_item(expected_values, expected_pulls)
       IN  /\ read_subject' = Append(read_subject, act)
           /\ read_expected' = Append(read_expected, exp)
           /\ failure' = IF act # exp
                         THEN ExpectedActual(IteratorItem(exp, read_expected),
                                             IteratorItem(act, read_subject))
                         ELSE failure
           /\ pc' = pc
    /\ UNCHANGED <<call_vars, contains_vars, all_of_vars, mapping_vars>>
    /\ UNCHANGED <<facade_vars, sched_vars>>

\* mutant: on an unequal pair the rest of the subject is pulled as well
compare_iterators_some_some_drains ==
    /\ pc = "compare_iterators"
    /\ HasNext(subject, actual_pulls)
    /\ HasNext(expected_values, expected_pulls)
    /\ expected_pulls' = expected_pulls + 1
    /\ LET act == Next_item(subject, actual_pulls)
           exp == Next_item(expected_values, expected_pulls)
       IN  IF act # exp
           THEN /\ failure' = ExpectedActual(IteratorItem(exp, read_expected),
                                             IteratorItem(act, read_subject))
                /\ pc' = "failed"
                /\ actual_pulls' = Len(subject) + 1
                /\ UNCHANGED compare_vars
           ELSE /\ read_subject' = Append(read_subject, act)
                /\ read_expected' = Append(read_expected, exp)
                /\ actual_pulls' = actual_pulls + 1
                /\ UNCHANGED <<pc, failure>>
    /\ UNCHANGED <<call_vars, contains_vars, all_of_vars, mapping_vars>>
    /\ UNCHANGED <<facade_vars, sched_vars>>

\* mutant: the two items are pushed to the read traces before they are compared
compare_iterators_some_some_pushes_first ==
    /\ pc = "compare_iterators"
    /\ HasNext(subject, actual_pulls)
    /\ HasNext(expected_values, expected_pulls)
    /\ actual_pulls' = actual_pulls + 1
    /\ expected_pulls' = expected_pulls + 1
    /\ LET act == Next_item(subject, actual_pulls)
           exp == Next_item(expected_values, expected_pulls)
       IN  /\ read_subject' = Append(read_subject, act)
           /\ read_expected' = Append(read_expected, exp)
           /\ IF act # exp
              THEN /\ failure' = ExpectedActual(IteratorItem(exp, read_expected'),
                                                IteratorItem(act, read_subject'))
                   /\ pc' = "failed"
              ELSE UNCHANGED <<pc, failure>>
    /\ UNCHANGED <<call_vars, contains_vars, all_of_vars, mapping_vars>>
    /\ UNCHANGED <<facade_vars, sched_vars>>

\* (Some(actual), Some(expected))
compare_iterators_some_some ==
    /\ pc = "compare_iterators"
    /\ HasNext(subject, actual_pulls)
    /\ HasNext(expected_values, expected_pulls)
    /\ actual_pulls' = actual_pulls + 1
    /\ expected_pulls' = expected_pulls + 1
    /\ LET act == Next_item(subject, actual_pulls)
           exp == Next_item(expected_values, expected_pulls)
       IN  IF act # exp
           THEN /\ failure' = ExpectedActual(IteratorItem(exp, read_expected),
                                             IteratorItem(act, read_subject))
                /\ pc' = "failed"
                /\ UNCHANGED compare_vars
           ELSE /\ read_subject' = Append(read_subject, act)
                /\ read_expected' = Append(read_expected, exp)
                /\ UNCHANGED <<pc, failure>>
    /\ UNCHANGED <<call_vars, contains_vars, all_of_vars, mapping_vars>>
    /\ UNCHANGED <<facade_vars, sched_vars>>

\* mutant: a subject that only extends the expected sequence is accepted
compare_iterators_some_none_pass ==
    /\ pc = "compare_iterators"
    /\ HasNext(subject, actual_pulls)
    /\ ~HasNext(expected_values, expected_pulls)
    /\ actual_pulls' = actual_pulls + 1
    /\ expected_pulls' = expected_pulls + 1
    /\ pc' = "passed"
    /\ UNCHANGED <<call_vars, contains_vars, all_of_vars, compare_vars, mapping_vars,
                   failure>>
    /\ UNCHANGED <<facade_vars, sched_vars>>

\* (Some(actual), None)
compare_iterators_some_none ==
    /\ pc = "compare_iterators"
    /\ HasNext(subject, actual_pulls)
    /\ ~HasNext(expected_values, expected_pulls)
    /\ actual_pulls' = actual_pulls + 1
    /\ expected_pulls' = expected_pulls + 1
    /\ failure' = ExpectedActual(CompletedIterator(read_expected),
                                 IteratorItem(Next_item(subject, actual_pulls),
                                              read_subject))
    /\ pc' = "failed"
    /\ UNCHANGED <<call_vars, contains_vars, all_of_vars, compare_vars, mapping_vars>>
    /\ UNCHANGED <<facade_vars, sched_vars>>

\* mutant: the two sides of the report are exchanged
compare_iterators_none_some_swapped ==
    /\ pc = "compare_iterators"
    /\ ~HasNext(subject, actual_pulls)
    /\ HasNext(expected_values, expected_pulls)
    /\ actual_pulls' = actual_pulls + 1
    /\ expected_pulls' = expected_pulls + 1
    /\ failure' = ExpectedActual(CompletedIterator(read_subject),
                                 IteratorItem(Next_item(expected_values, expected_pulls),
                                              read_expected))
    /\ pc' = "failed"
    /\ UNCHANGED <<call_vars, contains_vars, all_of_vars, compare_vars, mapping_vars>>
    /\ UNCHANGED <<facade_vars, sched_vars>>

\* (None, Some(expected))
compare_iterators_none_some ==
    /\ pc = "compare_iterators"
    /\ ~HasNext(subject, actual_pulls)
    /\ HasNext(expected_values, expected_pulls)
    /\ actual_pulls' = actual_pulls + 1
    /\ expected_pulls' = expected_pulls + 1
    /\ failure' = ExpectedActual(IteratorItem(Next_item(expected_values, expected_pulls),
                                              read_expected),
                                 CompletedIterator(read_subject))
    /\ pc' = "failed"
    /\ UNCHANGED <<call_vars, contains_vars, all_of_vars, compare_vars, mapping_vars>>
    /\ UNCHANGED <<facade_vars, sched_vars>>

\* (None, None)
compare_iterators_none_none ==
    /\ pc = "compare_iterators"
    /\ ~HasNext(subject, actual_pulls)
    /\ ~HasNext(expected_values, expected_pulls)
    /\ actual_pulls' = actual_pulls + 1
    /\ expected_pulls' = expected_pulls + 1
    /\ pc' = "passed"
    /\ UNCHANGED <<call_vars, contains_vars, all_of_vars, compare_vars, mapping_vars,
                   failure>>
    /\ UNCHANGED <<facade_vars, sched_vars>>

(* ------------------------- matching_contains -------------------------- *)

\* matcher(x)
Matches(p, x) == x \in p

matching_contains_call(s, p) ==
    /\ Invoke("matching_contains", s)
    /\ predicate' = p
    /\ actual' = <<>>
    /\ actual_pulls' = 0
    /\ calls' = <<>>
    /\ pc' = "matching_contains"
    /\ UNCHANGED <<expected_value, expected_values, should_contain,
                   mapping_function, contains_value, expected_pulls, mapped_vec,
                   all_of_vars, compare_vars, failure>>

matching_contains ==
    /\ pc = "idle"
    /\ \E s \in Subjects, p \in Predicates : matching_contains_call(s, p)
    /\ UNCHANGED <<facade_vars, sched_vars>>

\* mutant: a satisfying element does not end the scan
matching_contains_step_no_return ==
    /\ pc = "matching_contains"
    /\ HasNext(subject, actual_pulls)
    /\ actual_pulls' = actual_pulls + 1
    /\ LET x == Next_item(subject, actual_pulls)
       IN  /\ calls' = Append(calls, x)
           /\ IF Matches(predicate, x)
              THEN actual' = actual
              ELSE actual' = Append(actual, x)
    /\ pc' = pc
    /\ UNCHANGED <<call_vars, contains_value, expected_pulls, mapped_vec,
                   all_of_vars, compare_vars, failure>>
    /\ UNCHANGED <<facade_vars, sched_vars>>

\* mutant: the loop examines the next element without consuming it
matching_contains_step_peeks ==
    /\ pc = "matching_contains"
    /\ HasNext(subject, actual_pulls)
    /\ actual_pulls' = actual_pulls
    /\ LET x == Next_item(subject, actual_pulls)
       IN  /\ calls' = Append(calls, x)
           /\ IF Matches(predicate, x)
              THEN /\ pc' = "passed"
                   /\ actual' = actual
              ELSE /\ pc' = pc
                   /\ actual' = Append(actual, x)
    /\ UNCHANGED <<call_vars, contains_value, expected_pulls, mapped_vec,
                   all_of_vars, compare_vars, failure>>
    /\ UNCHANGED <<facade_vars, sched_vars>>

\* one iteration of `for x in self.subject`
matching_contains_step ==
    /\ pc = "matching_contains"
    /\ HasNext(subject, actual_pulls)
    /\ actual_pulls' = actual_pulls + 1
    /\ LET x == Next_item(subject, actual_pulls)
       IN  /\ calls' = Append(calls, x)
           /\ IF Matches(predicate, x)
              THEN /\ pc' = "passed"
                   /\ actual' = actual
              ELSE /\ pc' = pc
                   /\ actual' = Append(actual, x)
    /\ UNCHANGED <<call_vars, contains_value, expected_pulls, mapped_vec,
                   all_of_vars, compare_vars, failure>>
    /\ UNCHANGED <<facade_vars, sched_vars>>

\* mutant: a scan that saw no element returns without failing
matching_contains_end_empty_passes ==
    /\ pc = "matching_contains"
    /\ ~HasNext(subject, actual_pulls)
    /\ actual_pulls' = actual_pulls + 1
    /\ IF actual = <<>>
       THEN /\ failure' = failure
            /\ pc' = "passed"
       ELSE /\ failure' = SingleMessage("expectation failed for iterator with values <"
                                            \o DebugVec(actual) \o ">")
            /\ pc' = "failed"
    /\ UNCHANGED <<call_vars, contains_vars, expected_pulls, mapping_vars,
                   all_of_vars, compare_vars>>
    /\ UNCHANGED <<facade_vars, sched_vars>>

\* mutant: the failure is raised through with_expected / with_actual / fail
matching_contains_end_two_part ==
    /\ pc = "matching_contains"
    /\ ~HasNext(subject, actual_pulls)
    /\ actual_pulls' = actual_pulls + 1
    /\ failure' = ExpectedActual("expectation failed for iterator with values",
                                 "<" \o DebugVec(actual) \o ">")
    /\ pc' = "failed"
    /\ UNCHANGED <<call_vars, contains_vars, expected_pulls, mapping_vars,
                   all_of_vars, compare_vars>>
    /\ UNCHANGED <<facade_vars, sched_vars>>

\* the subject is exhausted: fail_with_message
matching_contains_end ==
    /\ pc = "matching_contains"
    /\ ~HasNext(subject, actual_pulls)
    /\ actual_pulls' = actual_pulls + 1
    /\ failure' = SingleMessage("expectation failed for iterator with values <"
                                    \o DebugVec(actual) \o ">")
    /\ pc' = "failed"
    /\ UNCHANGED <<call_vars, contains_vars, expected_pulls, mapping_vars,
                   all_of_vars, compare_vars>>
    /\ UNCHANGED <<facade_vars, sched_vars>>

(* -------------------------- mapped_contains --------------------------- *)

mapped_contains_call(s, f, v) ==
    /\ Invoke("mapped_contains", s)
    /\ mapping_function' = f
    /\ expected_value' = v
    /\ mapped_vec' = <<>>
    /\ actual_pulls' = 0
    /\ calls' = <<>>
    /\ pc' = "mapped_contains"
    /\ UNCHANGED <<expected_values, should_contain, predicate, expected_pulls,
                   contains_vars, all_of_vars, compare_vars, failure>>

mapped_contains ==
    /\ pc = "idle"
    /\ \E s \in Subjects, f \in MappingFunctions, v \in Values : mapped_contains_call(s, f, v)
    /\ UNCHANGED <<facade_vars, sched_vars>>

\* mutant: the mapping stops at the first mapped value equal to the expected one
mapped_contains_collect_short_circuit ==
    /\ pc = "mapped_contains"
    /\ HasNext(subject, actual_pulls)
    /\ actual_pulls' = actual_pulls + 1
    /\ LET x == Next_item(subject, actual_pulls)
       IN  /\ calls' = Append(calls, x)
           /\ mapped_vec' = Append(mapped_vec, mapping_function[x])
           /\ pc' = (IF mapping_function[x] = expected_value THEN "passed" ELSE pc)
    /\ UNCHANGED <<call_vars, contains_vars, expected_pulls, all_of_vars,
                   compare_vars, failure>>
    /\ UNCHANGED <<facade_vars, sched_vars>>

\* `subject.into_iter().map(mapping_function).collect()` takes one element
mapped_contains_collect ==
    /\ pc = "mapped_contains"
    /\ HasNext(subject, actual_pulls)
    /\ actual_pulls' = actual_pulls + 1
    /\ LET x == Next_item(subject, actual_pulls)
       IN  /\ calls' = Append(calls, x)
           /\ mapped_vec' = Append(mapped_vec, mapping_function[x])
    /\ UNCHANGED <<pc, call_vars, contains_vars, expected_pulls, all_of_vars,
                   compare_vars, failure>>
    /\ UNCHANGED <<facade_vars, sched_vars>>

\* mutant: the failure shows the elements of the subject, not the mapped values
mapped_contains_end_original_elements ==
    /\ pc = "mapped_contains"
    /\ ~HasNext(subject, actual_pulls)
    /\ actual_pulls' = actual_pulls + 1
    /\ IF VecContains(mapped_vec, expected_value)
       THEN /\ pc' = "passed"
            /\ failure' = failure
       ELSE /\ failure' = panic_unmatched(Debug(expected_value), DebugVec(subject),
                                          TRUE)
            /\ pc' = "failed"
    /\ UNCHANGED <<call_vars, contains_vars, expected_pulls, mapping_vars,
                   all_of_vars, compare_vars>>
    /\ UNCHANGED <<facade_vars, sched_vars>>

\* collect() is complete: `if mapped_vec.contains(expected_value)`
mapped_contains_end ==
    /\ pc = "mapped_contains"
    /\ ~HasNext(subject, actual_pulls)
    /\ actual_pulls' = actual_pulls + 1
    /\ IF VecContains(mapped_vec, expected_value)
       THEN /\ pc' = "passed"
            /\ failure' = failure
       ELSE /\ failure' = panic_unmatched(Debug(expected_value), DebugVec(mapped_vec),
                                          TRUE)
            /\ pc' = "failed"
    /\ UNCHANGED <<call_vars, contains_vars, expected_pulls, mapping_vars,
                   all_of_vars, compare_vars>>
    /\ UNCHANGED <<facade_vars, sched_vars>>

(* ====================================================================== *)
(*      impl ContainingIteratorAssertions (subject is an Iterator)       *)
(* ====================================================================== *)

\* the matcher is invoked on a handle whose subject is an Iterator + Clone;
\* self.subject.clone() yields the elements of the subject
InvokeIterator(name, s) ==
    /\ matcher' = name
    /\ subject' = s
    /\ subject_kind' = "Iterator"

iterator_contains_call(s, v) ==
    /\ InvokeIterator("contains", s)
    /\ expected_value' = v
    /\ should_contain' = TRUE
    /\ contains_value' = FALSE
    /\ actual' = <<>>
    /\ actual_pulls' = 0
    /\ pc' = "check_iterator_contains"
    /\ UNCHANGED <<expected_values, predicate, mapping_function, expected_pulls,
                   all_of_vars, compare_vars, mapping_vars, failure>>

iterator_contains ==
    /\ pc = "idle"
    /\ \E s \in Subjects, v \in Values : iterator_contains_call(s, v)
    /\ UNCHANGED <<facade_vars, sched_vars>>

iterator_contains_all_of_call(s, e) ==
    /\ InvokeIterator("contains_all_of", s)
    /\ expected_values' = e
    /\ actual_values' = s
    /\ actual_pulls' = Len(s) + 1
    /\ expected_pulls' = 0
    /\ matched_indexes' = <<>>
    /\ matched_indexes_holder' = <<>>
    /\ matched_values' = <<>>
    /\ unmatched_values' = <<>>
    /\ comparisons' = 0
    /\ pc' = "outer"
    /\ UNCHANGED <<expected_value, should_contain, predicate, mapping_function,
                   expected, scan_index, contains_vars, compare_vars,
                   mapping_vars, failure>>

iterator_contains_all_of ==
    /\ pc = "idle"
    /\ \E s \in Subjects, e \in ExpectedLists : iterator_contains_all_of_call(s, e)
    /\ UNCHANGED <<facade_vars, sched_vars>>

\* mutant: the flag of contains is passed on
iterator_does_not_contain_call_should_contain(s, v) ==
    /\ InvokeIterator("does_not_contain", s)
    /\ expected_value' = v
    /\ should_contain' = TRUE
    /\ contains_value' = FALSE
    /\ actual' = <<>>
    /\ actual_pulls' = 0
    /\ pc' = "check_iterator_contains"
    /\ UNCHANGED <<expected_values, predicate, mapping_function, expected_pulls,
                   all_of_vars, compare_vars, mapping_vars, failure>>

iterator_does_not_contain_call(s, v) ==
    /\ InvokeIterator("does_not_contain", s)
    /\ expected_value' = v
    /\ should_contain' = FALSE
    /\ contains_value' = FALSE
    /\ actual' = <<>>
    /\ actual_pulls' = 0
    /\ pc' = "check_iterator_contains"
    /\ UNCHANGED <<expected_values, predicate, mapping_function, expected_pulls,
                   all_of_vars, compare_vars, mapping_vars, failure>>

iterator_does_not_contain ==
    /\ pc = "idle"
    /\ \E s \in Subjects, v \in Values : iterator_does_not_contain_call(s, v)
    /\ UNCHANGED <<facade_vars, sched_vars>>

iterator_equals_iterator_call(s, e) ==
    /\ InvokeIterator("equals_iterator", s)
    /\ expected_values' = e
    /\ actual_pulls' = 0
    /\ expected_pulls' = 0
    /\ read_subject' = <<>>
    /\ read_expected' = <<>>
    /\ pc' = "compare_iterators"
    /\ UNCHANGED <<expected_value, should_contain, predicate, mapping_function,
                   contains_vars, all_of_vars, mapping_vars, failure>>

iterator_equals_iterator ==
    /\ pc = "idle"
    /\ \E s \in Subjects, e \in ExpectedLists : iterator_equals_iterator_call(s, e)
    /\ UNCHANGED <<facade_vars, sched_vars>>

(* ====================================================================== *)
(*        facade assertions (result.rs, json.rs, vec.rs, hashset.rs)      *)
(* ====================================================================== *)

\* diagnostic metadata of a handle
SubjectNames == {"", "subject"}

Locations == {"", "src/lib.rs:1"}

Descriptions == {"", "description"}

\* Result<T, E> with integer payloads
ResultSubjects == [variant : {"ok", "err"}, val : Values]

\* serde_json::Value; one field per payload type, the unused ones at a default
JsonValue(kind, bool, num, str, arr, obj) ==
    [kind |-> kind, bool |-> bool, num |-> num, str |-> str, arr |-> arr, obj |-> obj]

JsonNull == JsonValue("null", FALSE, 0, "", <<>>, <<>>)

JsonBool(b) == JsonValue("boolean", b, 0, "", <<>>, <<>>)

JsonNumber(n) == JsonValue("number", FALSE, n, "", <<>>, <<>>)

JsonString(s) == JsonValue("string", FALSE, 0, s, <<>>, <<>>)

JsonArray(a) == JsonValue("array", FALSE, 0, "", a, <<>>)

JsonObject(m) == JsonValue("object", FALSE, 0, "", <<>>, m)

Keys == {"a", "b"}

\* the values stored under the keys of an object
JsonLeaves == {JsonNull, JsonBool(TRUE)}

\* serde_json::Map<String, Value>
JsonMaps == UNION {[K -> JsonLeaves] : K \in SUBSET Keys}

JsonValues ==
    {JsonNull, JsonBool(TRUE), JsonBool(FALSE), JsonString("test"),
     JsonArray(<<>>), JsonArray(<<JsonNull>>)}
        \cup {JsonNumber(n) : n \in Values}
        \cup {JsonObject(m) : m \in JsonMaps}

HashSets == SUBSET Values

Lengths == 0..MaxLen

\* Spec { subject, subject_name, location, description }
MakeSpec(type, s, name, loc, desc) ==
    [present |-> TRUE, type |-> type, subject |-> s, subject_name |-> name,
     location |-> loc, description |-> desc]

\* assert_that(&subject): the handle a facade assertion is then invoked on
assert_that ==
    /\ pc = "idle"
    /\ \E name \in SubjectNames, loc \in Locations, desc \in Descriptions :
           \/ \E s \in ResultSubjects : handle' = MakeSpec("Result", s, name, loc, desc)
           \/ \E s \in JsonValues : handle' = MakeSpec("Value", s, name, loc, desc)
           \/ \E s \in JsonMaps : handle' = MakeSpec("Map", s, name, loc, desc)
           \/ \E s \in Subjects : handle' = MakeSpec("Vec", s, name, loc, desc)
           \/ \E s \in Subjects : handle' = MakeSpec("&Vec", s, name, loc, desc)
           \/ \E s \in HashSets : handle' = MakeSpec("HashSet", s, name, loc, desc)
    /\ pc' = "asserting"
    /\ UNCHANGED <<matcher, matcher_args, iter_locals, failure, argument, returned,
                   sched_vars>>

\* the assertion returns without raising
Return(name) ==
    /\ matcher' = name
    /\ pc' = "passed"
    /\ failure' = failure

\* AssertionFailure::from_spec(self).with_expected(e).with_actual(a).fail()
Raise(name, e, a) ==
    /\ matcher' = name
    /\ pc' = "failed"
    /\ failure' = ExpectedActual(e, a)

\* what an assertion on a handle never touches
facade_frame == <<handle, matcher_args, iter_locals, sched_vars>>

\* mutant: the returned handle does not carry the description over
NarrowedSpec_without_description(h, val) ==
    [present |-> TRUE, type |-> "narrowed", subject |-> val,
     subject_name |-> h.subject_name, location |-> h.location, description |-> ""]

\* Spec { subject: val, subject_name: self.subject_name,
\*        location: self.location.clone(), description: self.description }
NarrowedSpec(h, val) ==
    [present |-> TRUE, type |-> "narrowed", subject |-> val,
     subject_name |-> h.subject_name, location |-> h.location,
     description |-> h.description]

(* ------------------------------ result.rs ----------------------------- *)

result_build_detail_message(variant, value) ==
    "Result[" \o variant \o "] containing <" \o Debug(value) \o ">"

\* mutant: the variant of the subject is not looked at
is_ok_containing_any_variant ==
    /\ pc = "asserting"
    /\ handle.type = "Result"
    /\ \E v \in Values :
           /\ argument' = v
           /\ IF handle.subject.val # v
              THEN Raise("is_ok_containing",
                         result_build_detail_message("ok", v),
                         result_build_detail_message("ok", handle.subject.val))
              ELSE Return("is_ok_containing")
    /\ UNCHANGED <<returned, facade_frame>>

is_ok_containing ==
    /\ pc = "asserting"
    /\ handle.type = "Result"
    /\ \E v \in Values :
           /\ argument' = v
           /\ IF handle.subject.variant = "ok"
              THEN IF handle.subject.val # v
                   THEN Raise("is_ok_containing",
                              result_build_detail_message("ok", v),
                              result_build_detail_message("ok", handle.subject.val))
                   ELSE Return("is_ok_containing")
              ELSE Raise("is_ok_containing",
                         result_build_detail_message("ok", v),
                         result_build_detail_message("err", handle.subject.val))
    /\ UNCHANGED <<returned, facade_frame>>

is_err_containing ==
    /\ pc = "asserting"
    /\ handle.type = "Result"
    /\ \E v \in Values :
           /\ argument' = v
           /\ IF handle.subject.variant = "err"
              THEN IF handle.subject.val # v
                   THEN Raise("is_err_containing",
                              result_build_detail_message("err", v),
                              result_build_detail_message("err", handle.subject.val))
                   ELSE Return("is_err_containing")
              ELSE Raise("is_err_containing",
                         result_build_detail_message("err", v),
                         result_build_detail_message("ok", handle.subject.val))
    /\ UNCHANGED <<returned, facade_frame>>

is_ok ==
    /\ pc = "asserting"
    /\ handle.type = "Result"
    /\ IF handle.subject.variant = "ok"
       THEN /\ returned' = NarrowedSpec(handle, handle.subject.val)
            /\ Return("is_ok")
       ELSE /\ Raise("is_ok", "result[ok]",
                     "result[error]<" \o Debug(handle.subject.val) \o ">")
            /\ returned' = returned
    /\ UNCHANGED <<argument, facade_frame>>

is_err ==
    /\ pc = "asserting"
    /\ handle.type = "Result"
    /\ IF handle.subject.variant = "err"
       THEN /\ returned' = NarrowedSpec(handle, handle.subject.val)
            /\ Return("is_err")
       ELSE /\ Raise("is_err", "result[error]",
                     "result[ok]<" \o Debug(handle.subject.val) \o ">")
            /\ returned' = returned
    /\ UNCHANGED <<argument, facade_frame>>

(* ------------------------------- json.rs ------------------------------ *)

\* mutant: an array is described as an object
json_build_detail_message_array_as_object(value) ==
    CASE value.kind = "null" -> "json[null]"
      [] value.kind = "boolean" -> "json[boolean]"
      [] value.kind = "number" -> "json[number]"
      [] value.kind = "string" -> "json[string]"
      [] value.kind = "array" -> "json[object]"
      [] value.kind = "object" -> "json[object]"

json_build_detail_message(value) ==
    CASE value.kind = "null" -> "json[null]"
      [] value.kind = "boolean" -> "json[boolean]"
      [] value.kind = "number" -> "json[number]"
      [] value.kind = "string" -> "json[string]"
      [] value.kind = "array" -> "json[array]"
      [] value.kind = "object" -> "json[object]"

is_null ==
    /\ pc = "asserting"
    /\ handle.type = "Value"
    /\ IF handle.subject.kind = "null"
       THEN Return("is_null")
       ELSE Raise("is_null", "json[null]", json_build_detail_message(handle.subject))
    /\ UNCHANGED <<argument, returned, facade_frame>>

is_boolean ==
    /\ pc = "asserting"
    /\ handle.type = "Value"
    /\ IF handle.subject.kind = "boolean"
       THEN /\ returned' = NarrowedSpec(handle, handle.subject.bool)
            /\ Return("is_boolean")
       ELSE /\ Raise("is_boolean", "json[boolean]",
                     json_build_detail_message(handle.subject))
            /\ returned' = returned
    /\ UNCHANGED <<argument, facade_frame>>

is_number ==
    /\ pc = "asserting"
    /\ handle.type = "Value"
    /\ IF handle.subject.kind = "number"
       THEN /\ returned' = NarrowedSpec(handle, handle.subject.num)
            /\ Return("is_number")
       ELSE /\ Raise("is_number", "json[number]",
                     json_build_detail_message(handle.subject))
            /\ returned' = returned
    /\ UNCHANGED <<argument, facade_frame>>

is_string ==
    /\ pc = "asserting"
    /\ handle.type = "Value"
    /\ IF handle.subject.kind = "string"
       THEN /\ returned' = NarrowedSpec(handle, handle.subject.str)
            /\ Return("is_string")
       ELSE /\ Raise("is_string", "json[string]",
                     json_build_detail_message(handle.subject))
            /\ returned' = returned
    /\ UNCHANGED <<argument, facade_frame>>

is_array ==
    /\ pc = "asserting"
    /\ handle.type = "Value"
    /\ IF handle.subject.kind = "array"
       THEN /\ returned' = NarrowedSpec(handle, handle.subject.arr)
            /\ Return("is_array")
       ELSE /\ Raise("is_array", "json[array]",
                     json_build_detail_message(handle.subject))
            /\ returned' = returned
    /\ UNCHANGED <<argument, facade_frame>>

is_object ==
    /\ pc = "asserting"
    /\ handle.type = "Value"
    /\ IF handle.subject.kind = "object"
       THEN /\ returned' = NarrowedSpec(handle, handle.subject.obj)
            /\ Return("is_object")
       ELSE /\ Raise("is_object", "json[object]",
                     json_build_detail_message(handle.subject))
            /\ returned' = returned
    /\ UNCHANGED <<argument, facade_frame>>

\* Map::len
MapLen(m) == Cardinality(DOMAIN m)

\* {:?} of a &str
DebugStr(s) == "\"" \o s \o "\""

\* {:?} of subject.keys().collect::<Vec<&String>>(): the keys in their order
DebugKeys(m) ==
    "[" \o (IF "a" \in DOMAIN m THEN DebugStr("a") ELSE "")
        \o (IF DOMAIN m = Keys THEN ", " ELSE "")
        \o (IF "b" \in DOMAIN m THEN DebugStr("b") ELSE "") \o "]"

json_object_has_length ==
    /\ pc = "asserting"
    /\ handle.type = "Map"
    /\ \E n \in Lengths :
           /\ argument' = n
           /\ IF MapLen(handle.subject) # n
              THEN Raise("has_length",
                         "json[object] to have length <" \o ToString(n) \o ">",
                         "<" \o ToString(MapLen(handle.subject)) \o ">")
              ELSE Return("has_length")
    /\ UNCHANGED <<returned, facade_frame>>

json_object_is_empty ==
    /\ pc = "asserting"
    /\ handle.type = "Map"
    /\ IF ~(MapLen(handle.subject) = 0)
       THEN Raise("is_empty", "an empty json[object]",
                  "a json[object] with length <"
                      \o ToString(MapLen(handle.subject)) \o ">")
       ELSE Return("is_empty")
    /\ UNCHANGED <<argument, returned, facade_frame>>

json_object_is_not_empty ==
    /\ pc = "asserting"
    /\ handle.type = "Map"
    /\ IF MapLen(handle.subject) = 0
       THEN Raise("is_not_empty", "a non empty json[object]", "an empty json[object]")
       ELSE Return("is_not_empty")
    /\ UNCHANGED <<argument, returned, facade_frame>>

contains_key ==
    /\ pc = "asserting"
    /\ handle.type = "Map"
    /\ \E expected_key \in Keys :
           /\ argument' = expected_key
           /\ IF expected_key \in DOMAIN handle.subject
              THEN /\ returned' = NarrowedSpec(handle, handle.subject[expected_key])
                   /\ Return("contains_key")
              ELSE /\ Raise("contains_key",
                            "json[object] to contain key <" \o DebugStr(expected_key) \o ">",
                            "<" \o DebugKeys(handle.subject) \o ">")
                   /\ returned' = returned
    /\ UNCHANGED facade_frame

(* ------------------------------- vec.rs ------------------------------- *)

vec_has_length ==
    /\ pc = "asserting"
    /\ handle.type = "Vec"
    /\ \E n \in Lengths :
           /\ argument' = n
           /\ LET length == Len(handle.subject)
              IN  IF length # n
                  THEN Raise("has_length",
                             "vec to have length <" \o ToString(n) \o ">",
                             "<" \o ToString(length) \o ">")
                  ELSE Return("has_length")
    /\ UNCHANGED <<returned, facade_frame>>

vec_is_empty ==
    /\ pc = "asserting"
    /\ handle.type = "Vec"
    /\ IF ~(Len(handle.subject) = 0)
       THEN Raise("is_empty", "an empty vec",
                  "a vec with length <" \o ToString(Len(handle.subject)) \o ">")
       ELSE Return("is_empty")
    /\ UNCHANGED <<argument, returned, facade_frame>>

vec_is_not_empty ==
    /\ pc = "asserting"
    /\ handle.type = "Vec"
    /\ IF Len(handle.subject) = 0
       THEN Raise("is_not_empty", "a non empty vec", "an empty vec")
       ELSE Return("is_not_empty")
    /\ UNCHANGED <<argument, returned, facade_frame>>

\* mutant: the & impl compares with <= where the other impl has !=
ref_vec_has_length_at_least ==
    /\ pc = "asserting"
    /\ handle.type = "&Vec"
    /\ \E n \in Lengths :
           /\ argument' = n
           /\ LET length == Len(handle.subject)
              IN  IF length < n
                  THEN Raise("has_length",
                             "vec to have length <" \o ToString(n) \o ">",
                             "<" \o ToString(length) \o ">")
                  ELSE Return("has_length")
    /\ UNCHANGED <<returned, facade_frame>>

ref_vec_has_length ==
    /\ pc = "asserting"
    /\ handle.type = "&Vec"
    /\ \E n \in Lengths :
           /\ argument' = n
           /\ LET length == Len(handle.subject)
              IN  IF length # n
                  THEN Raise("has_length",
                             "vec to have length <" \o ToString(n) \o ">",
                             "<" \o ToString(length) \o ">")
                  ELSE Return("has_length")
    /\ UNCHANGED <<returned, facade_frame>>

ref_vec_is_empty ==
    /\ pc = "asserting"
    /\ handle.type = "&Vec"
    /\ IF ~(Len(handle.subject) = 0)
       THEN Raise("is_empty", "an empty vec",
                  "a vec with length <" \o ToString(Len(handle.subject)) \o ">")
       ELSE Return("is_empty")
    /\ UNCHANGED <<argument, returned, facade_frame>>

ref_vec_is_not_empty ==
    /\ pc = "asserting"
    /\ handle.type = "&Vec"
    /\ IF Len(handle.subject) = 0
       THEN Raise("is_not_empty", "a non empty vec", "an empty vec")
       ELSE Return("is_not_empty")
    /\ UNCHANGED <<argument, returned, facade_frame>>

(* ----------------------------- hashset.rs ----------------------------- *)

hashset_has_length ==
    /\ pc = "asserting"
    /\ handle.type = "HashSet"
    /\ \E n \in Lengths :
           /\ argument' = n
           /\ IF Cardinality(handle.subject) # n
              THEN Raise("has_length",
                         "HashSet to have length <" \o ToString(n) \o ">",
                         "<" \o ToString(Cardinality(handle.subject)) \o ">")
              ELSE Return("has_length")
    /\ UNCHANGED <<returned, facade_frame>>

hashset_is_empty ==
    /\ pc = "asserting"
    /\ handle.type = "HashSet"
    /\ IF ~(Cardinality(handle.subject) = 0)
       THEN Raise("is_empty", "an empty HashSet",
                  "a HashSet with length <"
                      \o ToString(Cardinality(handle.subject)) \o ">")
       ELSE Return("is_empty")
    /\ UNCHANGED <<argument, returned, facade_frame>>

hashset_is_not_empty ==
    /\ pc = "asserting"
    /\ handle.type = "HashSet"
    /\ IF Cardinality(handle.subject) = 0
       THEN Raise("is_not_empty", "an non empty HashSet",
                  "a HashSet with length <"
                      \o ToString(Cardinality(handle.subject)) \o ">")
       ELSE Return("is_not_empty")
    /\ UNCHANGED <<argument, returned, facade_frame>>

\* the invocation has ended
Finished == pc \in {"passed", "failed"}

(* ------------------------------- Next --------------------------------- *)

Next ==
    \/ contains
    \/ does_not_contain
    \/ check_iterator_contains_step
    \/ check_iterator_contains_end
    \/ contains_all_of
    \/ contains_all_of_outer
    \/ contains_all_of_inner_match
    \/ contains_all_of_inner_mismatch
    \/ contains_all_of_inner_exhausted
    \/ contains_all_of_end
    \/ equals_iterator
    \/ compare_iterators_some_some
    \/ compare_iterators_some_none
    \/ compare_iterators_none_some
    \/ compare_iterators_none_none
    \/ matching_contains
    \/ matching_contains_step
    \/ matching_contains_end
    \/ mapped_contains
    \/ mapped_contains_collect
    \/ mapped_contains_end
    \/ iterator_contains
    \/ iterator_contains_all_of
    \/ iterator_does_not_contain
    \/ iterator_equals_iterator
    \/ assert_that
    \/ is_ok_containing
    \/ is_err_containing
    \/ is_ok
    \/ is_err
    \/ is_null
    \/ is_boolean
    \/ is_number
    \/ is_string
    \/ is_array
    \/ is_object
    \/ json_object_has_length
    \/ json_object_is_empty
    \/ json_object_is_not_empty
    \/ contains_key
    \/ vec_has_length
    \/ vec_is_empty
    \/ vec_is_not_empty
    \/ ref_vec_has_length
    \/ ref_vec_is_empty
    \/ ref_vec_is_not_empty
    \/ hashset_has_length
    \/ hashset_is_empty
    \/ hashset_is_not_empty

Spec == Init /\ [][Next]_vars

(* ====================================================================== *)
(*                 invocations that follow one another                    *)
(* ====================================================================== *)

\* the subjects and expectations of the invocations that are repeated
SampleSubjects == {<<>>, <<1, 2>>, <<1, 2, 1>>}

SampleExpected == {<<1, 2>>, <<1, 1, 2>>}

SampleValues == {2}

SamplePredicates == {{2}}

SampleFunctions == {[x \in Values |-> 1]}

sample_contains ==
    /\ pc = "idle"
    /\ \E s \in SampleSubjects, v \in SampleValues : contains_call(s, v)
    /\ UNCHANGED <<facade_vars, sched_vars>>

sample_does_not_contain ==
    /\ pc = "idle"
    /\ \E s \in SampleSubjects, v \in SampleValues : does_not_contain_call(s, v)
    /\ UNCHANGED <<facade_vars, sched_vars>>

sample_contains_all_of ==
    /\ pc = "idle"
    /\ \E s \in SampleSubjects, e \in SampleExpected : contains_all_of_call(s, e)
    /\ UNCHANGED <<facade_vars, sched_vars>>

sample_equals_iterator ==
    /\ pc = "idle"
    /\ \E s \in SampleSubjects, e \in SampleExpected : equals_iterator_call(s, e)
    /\ UNCHANGED <<facade_vars, sched_vars>>

sample_matching_contains ==
    /\ pc = "idle"
    /\ \E s \in SampleSubjects, p \in SamplePredicates : matching_contains_call(s, p)
    /\ UNCHANGED <<facade_vars, sched_vars>>

sample_mapped_contains ==
    /\ pc = "idle"
    /\ \E s \in SampleSubjects, f \in SampleFunctions, v \in SampleValues :
           mapped_contains_call(s, f, v)
    /\ UNCHANGED <<facade_vars, sched_vars>>

\* the steps of the six matchers once invoked
MatcherStep ==
    \/ check_iterator_contains_step
    \/ check_iterator_contains_end
    \/ contains_all_of_outer
    \/ contains_all_of_inner_match
    \/ contains_all_of_inner_mismatch
    \/ contains_all_of_inner_exhausted
    \/ contains_all_of_end
    \/ compare_iterators_some_some
    \/ compare_iterators_some_none
    \/ compare_iterators_none_some
    \/ compare_iterators_none_none
    \/ matching_contains_step
    \/ matching_contains_end
    \/ mapped_contains_collect
    \/ mapped_contains_end

\* where an invocation is: its loop and the items it has pulled and scanned
position == <<pc, actual_pulls, expected_pulls, scan_index>>

\* a matcher runs to completion in the thread that called it: a step of its
\* loop that can be taken is taken
NextLive ==
    \/ contains
    \/ does_not_contain
    \/ contains_all_of
    \/ equals_iterator
    \/ matching_contains
    \/ mapped_contains
    \/ MatcherStep

SpecLive == Init /\ [][NextLive]_vars /\ WF_position(MatcherStep)

\* the invocation is over: the matcher has returned to its caller or its
\* failure has unwound to the test runner, which goes on to the next
\* assertion; what the locals held is left behind
return_to_caller ==
    /\ Finished
    /\ pc' = "idle"
    /\ failure' = NoFailure
    /\ returned' = NoHandle
    /\ UNCHANGED <<matcher, matcher_args, iter_locals, handle, argument, sched_vars>>

NextRepeat ==
    \/ sample_contains
    \/ sample_does_not_contain
    \/ sample_contains_all_of
    \/ sample_equals_iterator
    \/ sample_matching_contains
    \/ sample_mapped_contains
    \/ MatcherStep
    \/ return_to_caller

SpecRepeat == Init /\ [][NextRepeat]_vars

(* ====================================================================== *)
(*               two invocations on two threads, interleaved              *)
(* ====================================================================== *)

\* the frame of the running invocation: its handle, its arguments, its
\* position, every `let` of the matcher body and the failure it raises
Frame ==
    [pc |-> pc, matcher |-> matcher, subject |-> subject,
     expected_value |-> expected_value, expected_values |-> expected_values,
     should_contain |-> should_contain, contains_value |-> contains_value,
     actual |-> actual, actual_pulls |-> actual_pulls,
     expected_pulls |-> expected_pulls, actual_values |-> actual_values,
     matched_indexes |-> matched_indexes,
     matched_indexes_holder |-> matched_indexes_holder,
     matched_values |-> matched_values, unmatched_values |-> unmatched_values,
     expected |-> expected, scan_index |-> scan_index,
     comparisons |-> comparisons, read_subject |-> read_subject,
     read_expected |-> read_expected, predicate |-> predicate,
     mapping_function |-> mapping_function, mapped_vec |-> mapped_vec, calls |-> calls,
     failure |-> failure, subject_kind |-> subject_kind, handle |-> handle,
     argument |-> argument, returned |-> returned]

\* mutant: matched_indexes is one vec shared by the invocations
Restore_shared_matched_indexes(fr) ==
    /\ pc' = fr.pc
    /\ matcher' = fr.matcher
    /\ subject' = fr.subject
    /\ expected_value' = fr.expected_value
    /\ expected_values' = fr.expected_values
    /\ should_contain' = fr.should_contain
    /\ contains_value' = fr.contains_value
    /\ actual' = fr.actual
    /\ actual_pulls' = fr.actual_pulls
    /\ expected_pulls' = fr.expected_pulls
    /\ actual_values' = fr.actual_values
    /\ matched_indexes' = matched_indexes
    /\ matched_indexes_holder' = fr.matched_indexes_holder
    /\ matched_values' = fr.matched_values
    /\ unmatched_values' = fr.unmatched_values
    /\ expected' = fr.expected
    /\ scan_index' = fr.scan_index
    /\ comparisons' = fr.comparisons
    /\ read_subject' = fr.read_subject
    /\ read_expected' = fr.read_expected
    /\ predicate' = fr.predicate
    /\ mapping_function' = fr.mapping_function
    /\ mapped_vec' = fr.mapped_vec
    /\ calls' = fr.calls
    /\ failure' = fr.failure
    /\ subject_kind' = fr.subject_kind
    /\ handle' = fr.handle
    /\ argument' = fr.argument
    /\ returned' = fr.returned

\* the thread of the frame fr runs on: the variables hold its frame again
Restore(fr) ==
    /\ pc' = fr.pc
    /\ matcher' = fr.matcher
    /\ subject' = fr.subject
    /\ expected_value' = fr.expected_value
    /\ expected_values' = fr.expected_values
    /\ should_contain' = fr.should_contain
    /\ contains_value' = fr.contains_value
    /\ actual' = fr.actual
    /\ actual_pulls' = fr.actual_pulls
    /\ expected_pulls' = fr.expected_pulls
    /\ actual_values' = fr.actual_values
    /\ matched_indexes' = fr.matched_indexes
    /\ matched_indexes_holder' = fr.matched_indexes_holder
    /\ matched_values' = fr.matched_values
    /\ unmatched_values' = fr.unmatched_values
    /\ expected' = fr.expected
    /\ scan_index' = fr.scan_index
    /\ comparisons' = fr.comparisons
    /\ read_subject' = fr.read_subject
    /\ read_expected' = fr.read_expected
    /\ predicate' = fr.predicate
    /\ mapping_function' = fr.mapping_function
    /\ mapped_vec' = fr.mapped_vec
    /\ calls' = fr.calls
    /\ failure' = fr.failure
    /\ subject_kind' = fr.subject_kind
    /\ handle' = fr.handle
    /\ argument' = fr.argument
    /\ returned' = fr.returned

\* the test runner starts a second test thread, which has yet to invoke its
\* matcher
spawn ==
    /\ pc = "idle"
    /\ parked.pc = "none"
    /\ parked' = Frame
    /\ UNCHANGED <<pc, matcher, matcher_args, iter_locals, failure, facade_vars,
                   running>>

\* the other thread is scheduled between two steps of the running one
switch ==
    /\ parked.pc # "none"
    /\ parked' = Frame
    /\ running' = 3 - running
    /\ Restore(parked)

NextConc ==
    \/ sample_contains
    \/ sample_does_not_contain
    \/ sample_contains_all_of
    \/ sample_equals_iterator
    \/ sample_matching_contains
    \/ sample_mapped_contains
    \/ MatcherStep
    \/ spawn
    \/ switch

SpecConc == Init /\ [][NextConc]_vars

(* ====================================================================== *)
(*                  two assertions on the same handle                     *)
(* ====================================================================== *)

sample_iterator_contains ==
    /\ pc = "idle"
    /\ \E s \in SampleSubjects, v \in SampleValues : iterator_contains_call(s, v)
    /\ UNCHANGED <<facade_vars, sched_vars>>

sample_iterator_does_not_contain ==
    /\ pc = "idle"
    /\ \E s \in SampleSubjects, v \in SampleValues : iterator_does_not_contain_call(s, v)
    /\ UNCHANGED <<facade_vars, sched_vars>>

sample_iterator_contains_all_of ==
    /\ pc = "idle"
    /\ \E s \in SampleSubjects, e \in SampleExpected : iterator_contains_all_of_call(s, e)
    /\ UNCHANGED <<facade_vars, sched_vars>>

sample_iterator_equals_iterator ==
    /\ pc = "idle"
    /\ \E s \in SampleSubjects, e \in SampleExpected : iterator_equals_iterator_call(s, e)
    /\ UNCHANGED <<facade_vars, sched_vars>>

\* the same assertion is made once more on the handle the first one passed
\* on, with the caller's expected value or expected iterator as they are now:
\* self.subject.into_iter() / self.subject.clone() and expected.clone() are
\* taken from `subject` and `expected_values` as the first assertion left
\* them; the frame of the first assertion is kept in `parked`
again ==
    /\ pc = "passed"
    /\ parked.pc = "none"
    /\ parked' = Frame
    /\ running' = 2
    /\ \/ /\ subject_kind = "IntoIterator"
          /\ \/ matcher = "contains" /\ contains_call(subject, expected_value)
             \/ /\ matcher = "does_not_contain"
                /\ does_not_contain_call(subject, expected_value)
             \/ /\ matcher = "contains_all_of"
                /\ contains_all_of_call(subject, expected_values)
             \/ /\ matcher = "equals_iterator"
                /\ equals_iterator_call(subject, expected_values)
       \/ /\ subject_kind = "Iterator"
          /\ \/ matcher = "contains" /\ iterator_contains_call(subject, expected_value)
             \/ /\ matcher = "does_not_contain"
                /\ iterator_does_not_contain_call(subject, expected_value)
             \/ /\ matcher = "contains_all_of"
                /\ iterator_contains_all_of_call(subject, expected_values)
             \/ /\ matcher = "equals_iterator"
                /\ iterator_equals_iterator_call(subject, expected_values)
    /\ UNCHANGED facade_vars

NextChain ==
    \/ sample_contains
    \/ sample_does_not_contain
    \/ sample_contains_all_of
    \/ sample_equals_iterator
    \/ sample_iterator_contains
    \/ sample_iterator_does_not_contain
    \/ sample_iterator_contains_all_of
    \/ sample_iterator_equals_iterator
    \/ check_iterator_contains_step
    \/ check_iterator_contains_end
    \/ contains_all_of_outer
    \/ contains_all_of_inner_match
    \/ contains_all_of_inner_mismatch
    \/ contains_all_of_inner_exhausted
    \/ contains_all_of_end
    \/ compare_iterators_some_some
    \/ compare_iterators_some_none
    \/ compare_iterators_none_some
    \/ compare_iterators_none_none
    \/ again

SpecChain == Init /\ [][NextChain]_vars

(* ====================================================================== *)
(*                              properties                                *)
(* ====================================================================== *)

Passed == pc = "passed"

Failed == pc = "failed"

\* some element of s equals v
Occurs(s, v) == \E i \in 1..Len(s) : s[i] = v

\* s[0..k) in the source's indexing
Prefix(s, k) == SubSeq(s, 1, k)

\* number of positions of s, among the first n, that hold v
Count(s, n, v) == Cardinality({i \in 1..n : s[i] = v})

(* ------------------------------- C1 ----------------------------------- *)

\* C1: when contains(S, v) has run to its end it has passed iff some element
\* of S equals v, when does_not_contain(S, v) has run to its end it has passed
\* iff no element of S equals v, and whichever does not pass raises a failure;
\* so on every (S, v) exactly one of the two passes.
C1_ContainsIffMember ==
    /\ (matcher = "contains" /\ Finished) =>
           /\ Passed <=> Occurs(subject, expected_value)
           /\ Failed <=> failure.kind = "expected_actual"
    /\ (matcher = "does_not_contain" /\ Finished) =>
           /\ Passed <=> ~Occurs(subject, expected_value)
           /\ Failed <=> failure.kind = "expected_actual"

\* contains passes on a subject whose match is followed by other elements
C1_Witness ==
    /\ matcher = "contains"
    /\ Passed
    /\ subject = <<1, 2, 2>>
    /\ expected_value = 1

(* ------------------------------- C2 ----------------------------------- *)

\* a one-to-one assignment of the positions of e to indices of s with equal pairs
InjectiveAssignmentExists(e, s) ==
    \E f \in [1..Len(e) -> 1..Len(s)] :
        /\ \A j \in 1..Len(e) : s[f[j]] = e[j]
        /\ \A j, k \in 1..Len(e) : j # k => f[j] # f[k]

\* C2: contains_all_of(S, E) has passed at its end iff an injective assignment
\* of the positions of E to indices of S with equal pairs exists; and while
\* one exists the greedy scan never records an expected value as unmatched.
C2_AllOfIffInjective ==
    matcher = "contains_all_of" =>
        /\ Finished => (Passed <=> InjectiveAssignmentExists(expected_values, subject))
        /\ InjectiveAssignmentExists(expected_values, subject) => unmatched_values = <<>>

\* a pass where the greedy scan had to skip a consumed index
C2_Witness ==
    /\ matcher = "contains_all_of"
    /\ Passed
    /\ subject = <<1, 2, 1>>
    /\ expected_values = <<1, 1, 2>>

(* ------------------------------- C3 ----------------------------------- *)

\* position j of e finds an unconsumed equal element of s
IsMatchedPosition(e, s, j) == Count(e, j, e[j]) <= Count(s, Len(s), e[j])

RECURSIVE SelectPositions(_, _, _, _)
\* the values of e at the positions from j on that are matched (want = TRUE)
\* or unmatched (want = FALSE), in the order of e
SelectPositions(e, s, j, want) ==
    IF j > Len(e) THEN <<>>
    ELSE (IF IsMatchedPosition(e, s, j) = want THEN <<e[j]>> ELSE <<>>)
             \o SelectPositions(e, s, j + 1, want)

MatchedThenUnmatched(e, s) ==
    SelectPositions(e, s, 1, TRUE) \o SelectPositions(e, s, 1, FALSE)

\* C3: a failure of contains_all_of(S, E) reports as expected the matched
\* expected values in the order matched followed by the unmatched ones in
\* their original relative order, and as actual the whole of S in its order;
\* S=[1,2,3], E=[1,1,3] reports [1, 3, 1] against [1, 2, 3].
C3_AllOfFailureReport ==
    (matcher = "contains_all_of" /\ Failed) =>
        /\ failure.kind = "expected_actual"
        /\ failure.expected =
               "iterator to contain items <"
                   \o DebugVec(MatchedThenUnmatched(expected_values, subject)) \o ">"
        /\ failure.actual = "<" \o DebugVec(subject) \o ">"
        /\ (subject = <<1, 2, 3>> /\ expected_values = <<1, 1, 3>>) =>
               /\ failure.expected = "iterator to contain items <[1, 3, 1]>"
               /\ failure.actual = "<[1, 2, 3]>"

\* a failure whose reported expected list is not E in its original order
C3_Witness ==
    /\ matcher = "contains_all_of"
    /\ Failed
    /\ subject = <<1, 2>>
    /\ expected_values = <<1, 1, 2>>
    /\ failure.expected = "iterator to contain items <[1, 2, 1]>"
    /\ failure.actual = "<[1, 2]>"

(* ------------------------------- C4 ----------------------------------- *)

\* C4: equals_iterator(A, B) has passed at its end iff A and B have the same
\* length and A[i] = B[i] at every index.
C4_EqualsIffSameSequence ==
    (matcher = "equals_iterator" /\ Finished) =>
        (Passed <=> /\ Len(subject) = Len(expected_values)
                    /\ \A i \in 1..Len(subject) : subject[i] = expected_values[i])

\* a permutation of the expected sequence is rejected
C4_Witness ==
    /\ matcher = "equals_iterator"
    /\ Failed
    /\ subject = <<1, 2, 1>>
    /\ expected_values = <<2, 1, 1>>

(* ------------------------------- C5 ----------------------------------- *)

\* k (from 0) is the first index at which both a and b have an element and differ
FirstDifference(a, b, k) ==
    /\ k < Len(a)
    /\ k < Len(b)
    /\ a[k + 1] # b[k + 1]
    /\ \A i \in 1..k : a[i] = b[i]

\* C5: when equals_iterator(A, B) fails on A[k] # B[k] at the first index k
\* where both have an element and differ, it reports expected item B[k] with
\* read trace B[0..k) and actual item A[k] with read trace A[0..k).
C5_MismatchReport ==
    (matcher = "equals_iterator" /\ Failed) =>
        \A k \in 0..Len(subject) :
            FirstDifference(subject, expected_values, k) =>
                /\ failure.kind = "expected_actual"
                /\ failure.expected =
                       "Iterator item of <" \o ToString(expected_values[k + 1])
                           \o "> (read <" \o DebugVec(Prefix(expected_values, k)) \o ">)"
                /\ failure.actual =
                       "Iterator item of <" \o ToString(subject[k + 1])
                           \o "> (read <" \o DebugVec(Prefix(subject, k)) \o ">)"
                /\ Len(read_expected) = k
                /\ Len(read_subject) = k

\* a mismatch at index 2 after two equal pairs
C5_Witness ==
    /\ matcher = "equals_iterator"
    /\ Failed
    /\ subject = <<1, 2, 1>>
    /\ expected_values = <<1, 2, 2>>
    /\ failure.expected = "Iterator item of <2> (read <[1, 2]>)"
    /\ failure.actual = "Iterator item of <1> (read <[1, 2]>)"

(* ------------------------------- C6 ----------------------------------- *)

\* a and b agree wherever both have an element
AgreeOnCommonPrefix(a, b) ==
    \A i \in 1..Len(a) : i <= Len(b) => a[i] = b[i]

\* C6: when A and B agree on their common prefix but differ in length,
\* equals_iterator(A, B) fails; a longer subject is reported as expected
\* "Completed iterator" with all of B read against actual item A[len(B)] with
\* A[0..len(B)) read, a longer expected list as expected item B[len(A)] with
\* B[0..len(A)) read against actual "Completed iterator" with all of A read.
C6_LengthMismatchReport ==
    (/\ matcher = "equals_iterator"
     /\ Finished
     /\ AgreeOnCommonPrefix(subject, expected_values)
     /\ Len(subject) # Len(expected_values)) =>
        /\ Failed
        /\ failure.kind = "expected_actual"
        /\ Len(subject) > Len(expected_values) =>
               /\ failure.expected =
                      "Completed iterator (read <" \o DebugVec(expected_values) \o ">)"
               /\ failure.actual =
                      "Iterator item of <"
                          \o ToString(subject[Len(expected_values) + 1])
                          \o "> (read <"
                          \o DebugVec(Prefix(subject, Len(expected_values))) \o ">)"
        /\ Len(subject) < Len(expected_values) =>
               /\ failure.expected =
                      "Iterator item of <"
                          \o ToString(expected_values[Len(subject) + 1])
                          \o "> (read <"
                          \o DebugVec(Prefix(expected_values, Len(subject))) \o ">)"
               /\ failure.actual =
                      "Completed iterator (read <" \o DebugVec(subject) \o ">)"

\* the expected list is longer than the subject it extends
C6_Witness ==
    /\ matcher = "equals_iterator"
    /\ Failed
    /\ subject = <<1, 2>>
    /\ expected_values = <<1, 2, 1>>
    /\ failure.expected = "Iterator item of <1> (read <[1, 2]>)"
    /\ failure.actual = "Completed iterator (read <[1, 2]>)"

(* ------------------------------- C7 ----------------------------------- *)

\* k (from 0) is the index of the first element of s the predicate p accepts
FirstSatisfying(s, p, k) ==
    /\ k < Len(s)
    /\ s[k + 1] \in p
    /\ \A i \in 1..k : s[i] \notin p

\* C7: in matching_contains the predicate is invoked on the elements of the
\* subject in order; when k is the first index whose element satisfies it,
\* no element beyond k is ever pulled or handed to the predicate, and at its
\* end the matcher has passed after exactly the k+1 invocations on 0..k.
C7_MatchingShortCircuit ==
    matcher = "matching_contains" =>
        /\ calls = Prefix(subject, Len(calls))
        /\ \A k \in 0..Len(subject) :
               FirstSatisfying(subject, predicate, k) =>
                   /\ Len(calls) <= k + 1
                   /\ actual_pulls <= k + 1
                   /\ Finished => /\ Passed
                                  /\ calls = Prefix(subject, k + 1)
                                  /\ failure = NoFailure

\* [Bad, Good, Bad]: passed without visiting the third element
C7_Witness ==
    /\ matcher = "matching_contains"
    /\ Passed
    /\ subject = <<1, 2, 1>>
    /\ predicate = {2}
    /\ calls = <<1, 2>>

(* ------------------------------- C8 ----------------------------------- *)

\* C8: matching_contains has failed at its end iff no element of the subject
\* satisfies the predicate (the empty subject included), and then the failure
\* is one message that lists every element of the subject in original order.
C8_MatchingFailure ==
    (matcher = "matching_contains" /\ Finished) =>
        /\ Failed <=> \A i \in 1..Len(subject) : subject[i] \notin predicate
        /\ Failed =>
               failure = [kind |-> "message", expected |-> "", actual |-> "",
                          message |-> "expectation failed for iterator with values <"
                                          \o DebugVec(subject) \o ">"]

\* [Bad, Bad, Bad] against is_good
C8_Witness ==
    /\ matcher = "matching_contains"
    /\ Failed
    /\ subject = <<1, 1, 1>>
    /\ predicate = {2}
    /\ failure.message = "expectation failed for iterator with values <[1, 1, 1]>"

(* ------------------------------- C9 ----------------------------------- *)

\* C9: mapped_contains applies the mapping function to the elements of the
\* subject in order, once each, and reaches its membership test (and so its
\* end) only after the function has been applied to every element, whether
\* or not a mapped value already equals the expected one.
C9_MappedNoShortCircuit ==
    matcher = "mapped_contains" =>
        /\ calls = Prefix(subject, Len(calls))
        /\ Len(mapped_vec) = Len(calls)
        /\ Finished => calls = subject

\* the first mapped value already equals the expected one, yet all are mapped
C9_Witness ==
    /\ matcher = "mapped_contains"
    /\ Passed
    /\ subject = <<1, 2, 2>>
    /\ mapping_function[1] = 2
    /\ expected_value = 2
    /\ calls = <<1, 2, 2>>

(* ------------------------------- C10 ---------------------------------- *)

\* the mapped values f(x) in subject order
Mapped(f, s) == [i \in 1..Len(s) |-> f[s[i]]]

\* C10: mapped_contains(f, v) has passed at its end iff v = f(x) for some
\* element x of the subject; a failure reports as actual the mapped values
\* f(x) in subject order and as expected "iterator to contain <v>".
C10_MappedContains ==
    (matcher = "mapped_contains" /\ Finished) =>
        /\ Passed <=> \E i \in 1..Len(subject) : mapping_function[subject[i]] = expected_value
        /\ Failed =>
               /\ failure.kind = "expected_actual"
               /\ failure.expected = "iterator to contain <" \o ToString(expected_value) \o ">"
               /\ failure.actual = "<" \o DebugVec(Mapped(mapping_function, subject)) \o ">"

\* the expected value is an element of the subject but of no mapped value
C10_Witness ==
    /\ matcher = "mapped_contains"
    /\ Failed
    /\ subject = <<1, 2>>
    /\ mapping_function = [x \in Values |-> 2]
    /\ expected_value = 1
    /\ failure.expected = "iterator to contain <1>"
    /\ failure.actual = "<[2, 2]>"

(* ------------------------------- C11 ---------------------------------- *)

\* C11: contains and does_not_contain pull every element of the subject
\* once, in order, and push each one on `actual`, whether or not an element
\* has already matched; so at their end `actual` is the whole subject and a
\* failure of either reports every element of the subject in original order,
\* the elements after the first match included.
C11_ContainsScansWholeSubject ==
    matcher \in {"contains", "does_not_contain"} =>
        /\ actual = Prefix(subject, Len(actual))
        /\ pc = "check_iterator_contains" => actual_pulls = Len(actual)
        /\ Finished => /\ actual = subject
                       /\ actual_pulls = Len(subject) + 1
        /\ Failed => failure.actual = "<" \o DebugVec(subject) \o ">"

\* does_not_contain fails on a match that is followed by another element
C11_Witness ==
    /\ matcher = "does_not_contain"
    /\ Failed
    /\ subject = <<1, 2, 1>>
    /\ expected_value = 2
    /\ failure.expected = "iterator to not contain <2>"
    /\ failure.actual = "<[1, 2, 1]>"

\* C12: every invocation ends either by returning normally with no failure
\* raised, or by raising one failure after which no step of the matcher is
\* executed: a state that is not failed holds no failure record, a failed state
\* holds one and has returned no handle, a running matcher is never stuck
\* short of an outcome, and every step starts in a state where nothing has
\* been raised and the invocation has not ended.
C12_Outcome ==
    /\ Passed => failure = NoFailure
    /\ Failed => /\ failure.kind \in {"expected_actual", "message"}
                 /\ ~returned.present
    /\ ~Finished => failure = NoFailure
    /\ pc \notin {"idle", "passed", "failed"} => ENABLED Next

C12_PassOrRaiseOnce ==
    /\ []C12_Outcome
    /\ [][failure = NoFailure /\ ~Finished]_vars

C12_Witness ==
    /\ matcher = "equals_iterator"
    /\ Failed
    /\ subject = <<1, 2, 1>>
    /\ expected_values = <<1, 1, 1>>
    /\ read_subject = <<1>>
    /\ actual_pulls = 2
    /\ failure.kind = "expected_actual"

(* ------------------------------- C17 ---------------------------------- *)

\* what an invocation ends with
Outcome == [passed |-> Passed, failure |-> failure]

Pass == [passed |-> TRUE, failure |-> NoFailure]

Fail(f) == [passed |-> FALSE, failure |-> f]

TwoPart(e, a) ==
    [kind |-> "expected_actual", expected |-> e, actual |-> a, message |-> ""]

\* contains (should = TRUE) and does_not_contain (should = FALSE) on s and v
ContainsOutcome(s, v, should) ==
    IF Occurs(s, v) = should THEN Pass
    ELSE Fail(TwoPart("iterator to" \o (IF should THEN "" ELSE " not")
                          \o " contain <" \o ToString(v) \o ">",
                      "<" \o DebugVec(s) \o ">"))

\* contains_all_of on s and e
ContainsAllOfOutcome(s, e) ==
    IF InjectiveAssignmentExists(e, s) THEN Pass
    ELSE Fail(TwoPart("iterator to contain items <"
                          \o DebugVec(MatchedThenUnmatched(e, s)) \o ">",
                      "<" \o DebugVec(s) \o ">"))

ItemText(s, k) ==
    IF k < Len(s)
    THEN "Iterator item of <" \o ToString(s[k + 1]) \o "> (read <"
             \o DebugVec(Prefix(s, k)) \o ">)"
    ELSE "Completed iterator (read <" \o DebugVec(s) \o ">)"

\* equals_iterator on a and b: they part at the first index k where they
\* differ or where one of them ends
EqualsOutcome(a, b) ==
    IF a = b THEN Pass
    ELSE LET k == CHOOSE i \in 0..Len(a) :
                      /\ i <= Len(b)
                      /\ Prefix(a, i) = Prefix(b, i)
                      /\ (i = Len(a) \/ i = Len(b) \/ a[i + 1] # b[i + 1])
         IN  Fail(TwoPart(ItemText(b, k), ItemText(a, k)))

\* the outcome of a matcher as a function of its element sequence and its
\* expectation alone
IterOutcome(name, s, v, e) ==
    CASE name = "contains" -> ContainsOutcome(s, v, TRUE)
      [] name = "does_not_contain" -> ContainsOutcome(s, v, FALSE)
      [] name = "contains_all_of" -> ContainsAllOfOutcome(s, e)
      [] name = "equals_iterator" -> EqualsOutcome(s, e)

\* C17: contains, does_not_contain, contains_all_of and equals_iterator end
\* with an outcome and failure texts that are a function of the element
\* sequence and the expectation, the same function for the impl on
\* IntoIterator subjects and the impl on Iterator subjects.
C17_IteratorImplsEquivalent ==
    (/\ matcher \in {"contains", "does_not_contain", "contains_all_of", "equals_iterator"}
     /\ Finished) =>
        /\ subject_kind \in {"IntoIterator", "Iterator"}
        /\ Outcome = IterOutcome(matcher, subject, expected_value, expected_values)

\* the failure of the Iterator impl that the IntoIterator impl gives on the
\* same subject and expected values
C17_Witness ==
    /\ subject_kind = "Iterator"
    /\ matcher = "contains_all_of"
    /\ Failed
    /\ subject = <<1, 2>>
    /\ expected_values = <<1, 1, 2>>
    /\ failure.expected = "iterator to contain items <[1, 2, 1]>"
    /\ failure.actual = "<[1, 2]>"

(* ------------------------------- C15 ---------------------------------- *)

NarrowingAssertions ==
    {"is_ok", "is_err", "is_boolean", "is_number", "is_string", "is_array",
     "is_object", "contains_key"}

\* the subject of h has the shape the assertion asks for
HasShape(name, h, arg) ==
    CASE name = "is_ok" -> h.subject.variant = "ok"
      [] name = "is_err" -> h.subject.variant = "err"
      [] name = "is_boolean" -> h.subject.kind = "boolean"
      [] name = "is_number" -> h.subject.kind = "number"
      [] name = "is_string" -> h.subject.kind = "string"
      [] name = "is_array" -> h.subject.kind = "array"
      [] name = "is_object" -> h.subject.kind = "object"
      [] name = "contains_key" -> arg \in DOMAIN h.subject

\* the value inside a subject of that shape
InnerValue(name, h, arg) ==
    CASE name \in {"is_ok", "is_err"} -> h.subject.val
      [] name = "is_boolean" -> h.subject.bool
      [] name = "is_number" -> h.subject.num
      [] name = "is_string" -> h.subject.str
      [] name = "is_array" -> h.subject.arr
      [] name = "is_object" -> h.subject.obj
      [] name = "contains_key" -> h.subject[arg]

C15_Returned ==
    /\ (matcher \in NarrowingAssertions /\ Finished) =>
           /\ Passed <=> HasShape(matcher, handle, argument)
           /\ Passed => /\ returned.present
                        /\ returned.subject = InnerValue(matcher, handle, argument)
                        /\ returned.subject_name = handle.subject_name
                        /\ returned.location = handle.location
                        /\ returned.description = handle.description
           /\ Failed => ~returned.present
    /\ returned.present => (matcher \in NarrowingAssertions /\ Passed)

\* C15: a passing is_ok, is_err, is_boolean, is_number, is_string, is_array,
\* is_object or contains_key returns a handle on the inner value with the
\* subject name, location and description of the handle it was invoked on;
\* on a subject of another shape it fails and returns no handle; and no
\* assertion changes the handle it is invoked on.
C15_NarrowingKeepsMetadata ==
    /\ []C15_Returned
    /\ [][pc = "asserting" => handle' = handle]_vars

\* is_ok on Ok(2) of a named and described handle
C15_Witness ==
    /\ matcher = "is_ok"
    /\ Passed
    /\ handle.subject = [variant |-> "ok", val |-> 2]
    /\ handle.subject_name = "subject"
    /\ handle.description = "description"
    /\ handle.location = "src/lib.rs:1"
    /\ returned.present
    /\ returned.subject = 2
    /\ returned.description = "description"

(* ------------------------------- C18 ---------------------------------- *)

ResultText(variant, value) ==
    "Result[" \o variant \o "] containing <" \o ToString(value) \o ">"

\* C18: is_ok_containing(x) passes iff the subject is Ok(v) with v = x and
\* is_err_containing(x) passes iff the subject is Err(e) with e = x; a
\* subject of the other variant fails even with an equal payload; a failure
\* reports the expected variant with x against the actual variant with the
\* actual payload.
C18_ContainingChecksVariant ==
    /\ (matcher = "is_ok_containing" /\ Finished) =>
           /\ Passed <=> handle.subject = [variant |-> "ok", val |-> argument]
           /\ Failed => failure = TwoPart(ResultText("ok", argument),
                                          ResultText(handle.subject.variant,
                                                     handle.subject.val))
    /\ (matcher = "is_err_containing" /\ Finished) =>
           /\ Passed <=> handle.subject = [variant |-> "err", val |-> argument]
           /\ Failed => failure = TwoPart(ResultText("err", argument),
                                          ResultText(handle.subject.variant,
                                                     handle.subject.val))

\* the payload equals the expected value but sits in the other variant
C18_Witness ==
    /\ matcher = "is_ok_containing"
    /\ Failed
    /\ handle.subject = [variant |-> "err", val |-> 1]
    /\ argument = 1
    /\ failure.expected = "Result[ok] containing <1>"
    /\ failure.actual = "Result[err] containing <1>"

(* ------------------------------- C19 ---------------------------------- *)

KindAssertions ==
    {"is_null", "is_boolean", "is_number", "is_string", "is_array", "is_object"}

AssertedKind(name) ==
    CASE name = "is_null" -> "null"
      [] name = "is_boolean" -> "boolean"
      [] name = "is_number" -> "number"
      [] name = "is_string" -> "string"
      [] name = "is_array" -> "array"
      [] name = "is_object" -> "object"

\* C19: each of the six kind assertions can be invoked on every JSON value;
\* it passes iff it names the kind of the value, so exactly one of the six
\* passes, and each of the other five fails with expected json[asserted kind]
\* and actual json[kind of the value].
C19_ExactlyOneKindPasses ==
    /\ (pc = "asserting" /\ handle.type = "Value") =>
           /\ ENABLED is_null
           /\ ENABLED is_boolean
           /\ ENABLED is_number
           /\ ENABLED is_string
           /\ ENABLED is_array
           /\ ENABLED is_object
           /\ Cardinality({name \in KindAssertions :
                               AssertedKind(name) = handle.subject.kind}) = 1
    /\ (matcher \in KindAssertions /\ Finished) =>
           /\ Passed <=> AssertedKind(matcher) = handle.subject.kind
           /\ Failed => failure = TwoPart("json[" \o AssertedKind(matcher) \o "]",
                                          "json[" \o handle.subject.kind \o "]")

\* an array is not taken for an object
C19_Witness ==
    /\ matcher = "is_object"
    /\ Failed
    /\ handle.subject.kind = "array"
    /\ failure.expected = "json[object]"
    /\ failure.actual = "json[array]"

(* ------------------------------- C20 ---------------------------------- *)

LengthAssertions == {"has_length", "is_empty", "is_not_empty"}

Containers == {"Vec", "&Vec", "HashSet", "Map"}

\* the number of elements of the subject of h
Size(h) ==
    CASE h.type \in {"Vec", "&Vec"} -> Len(h.subject)
      [] h.type = "HashSet" -> Cardinality(h.subject)
      [] h.type = "Map" -> Cardinality(DOMAIN h.subject)

\* what a length assertion on a vec of n elements ends with, for both impls
VecOutcome(name, n, arg) ==
    CASE name = "has_length" ->
             IF n = arg THEN Pass
             ELSE Fail(TwoPart("vec to have length <" \o ToString(arg) \o ">",
                               "<" \o ToString(n) \o ">"))
      [] name = "is_empty" ->
             IF n = 0 THEN Pass
             ELSE Fail(TwoPart("an empty vec",
                               "a vec with length <" \o ToString(n) \o ">"))
      [] name = "is_not_empty" ->
             IF n >= 1 THEN Pass
             ELSE Fail(TwoPart("a non empty vec", "an empty vec"))

\* C20: on Vec, &Vec, HashSet and JSON-object subjects has_length(n) passes
\* iff the subject has exactly n elements, is_empty iff it has none and
\* is_not_empty iff it has at least one; the three can be invoked on every
\* such subject; and on Vec and &Vec the outcome and the failure texts are
\* the same function of the length and the argument.
C20_LengthAssertions ==
    /\ (pc = "asserting" /\ handle.type = "Vec") =>
           ENABLED vec_has_length /\ ENABLED vec_is_empty /\ ENABLED vec_is_not_empty
    /\ (pc = "asserting" /\ handle.type = "&Vec") =>
           /\ ENABLED ref_vec_has_length
           /\ ENABLED ref_vec_is_empty
           /\ ENABLED ref_vec_is_not_empty
    /\ (pc = "asserting" /\ handle.type = "HashSet") =>
           /\ ENABLED hashset_has_length
           /\ ENABLED hashset_is_empty
           /\ ENABLED hashset_is_not_empty
    /\ (pc = "asserting" /\ handle.type = "Map") =>
           /\ ENABLED json_object_has_length
           /\ ENABLED json_object_is_empty
           /\ ENABLED json_object_is_not_empty
    /\ (matcher \in LengthAssertions /\ Finished) =>
           /\ handle.type \in Containers
           /\ matcher = "has_length" => (Passed <=> Size(handle) = argument)
           /\ matcher = "is_empty" => (Passed <=> Size(handle) = 0)
           /\ matcher = "is_not_empty" => (Passed <=> Size(handle) >= 1)
           /\ handle.type \in {"Vec", "&Vec"} =>
                  Outcome = VecOutcome(matcher, Len(handle.subject), argument)

\* has_length on a &Vec longer than asked for
C20_Witness ==
    /\ matcher = "has_length"
    /\ Failed
    /\ handle.type = "&Vec"
    /\ handle.subject = <<1, 2, 1>>
    /\ argument = 2
    /\ failure.expected = "vec to have length <2>"
    /\ failure.actual = "<3>"

(* ------------------------------- C16 ---------------------------------- *)

\* the expected and actual texts of a failing mapped_contains
MappedFailure(f, s, v) ==
    TwoPart("iterator to contain <" \o ToString(v) \o ">",
            "<" \o DebugVec(Mapped(f, s)) \o ">")

\* C16: a failure of contains, does_not_contain, contains_all_of,
\* equals_iterator or mapped_contains panics with newline, tab, "expected: ",
\* the expected text, newline, tab, " but was: ", the actual text, where the
\* texts render collections as <[..]>; a failure of matching_contains panics
\* with newline, tab and its single message, without those two parts.
C16_PanicMessageFormat ==
    Failed =>
        /\ matcher \in {"contains", "does_not_contain", "contains_all_of",
                        "equals_iterator"} =>
               LET f == IterOutcome(matcher, subject, expected_value,
                                    expected_values).failure
               IN  /\ failure.kind = "expected_actual"
                   /\ panic_message(failure) =
                          "\n\texpected: " \o f.expected \o "\n\t but was: " \o f.actual
        /\ matcher = "mapped_contains" =>
               LET f == MappedFailure(mapping_function, subject, expected_value)
               IN  /\ failure.kind = "expected_actual"
                   /\ panic_message(failure) =
                          "\n\texpected: " \o f.expected \o "\n\t but was: " \o f.actual
        /\ matcher = "matching_contains" =>
               /\ failure.kind = "message"
               /\ panic_message(failure) =
                      "\n\texpectation failed for iterator with values <"
                          \o DebugVec(subject) \o ">"

\* [Bad, Bad, Bad] against is_good
C16_Witness ==
    /\ matcher = "matching_contains"
    /\ Failed
    /\ subject = <<1, 1, 1>>
    /\ predicate = {2}
    /\ panic_message(failure) =
           "\n\texpectation failed for iterator with values <[1, 1, 1]>"

(* ------------------------------- C13 ---------------------------------- *)

OneMessage(m) == [kind |-> "message", expected |-> "", actual |-> "", message |-> m]

MatchingOutcome(s, p) ==
    IF \E i \in 1..Len(s) : s[i] \in p THEN Pass
    ELSE Fail(OneMessage("expectation failed for iterator with values <"
                             \o DebugVec(s) \o ">"))

MappedOutcome(s, f, v) ==
    IF \E i \in 1..Len(s) : f[s[i]] = v THEN Pass
    ELSE Fail(MappedFailure(f, s, v))

\* the outcome of an invocation as a function of its own subject and
\* expectation, given as a record of the arguments of the invocation
ExpectedOutcome(call) ==
    CASE call.matcher = "matching_contains" ->
             MatchingOutcome(call.subject, call.predicate)
      [] call.matcher = "mapped_contains" ->
             MappedOutcome(call.subject, call.mapping_function, call.expected_value)
      [] OTHER ->
             IterOutcome(call.matcher, call.subject, call.expected_value,
                         call.expected_values)

\* the arguments of the running invocation
Call ==
    [matcher |-> matcher, subject |-> subject, expected_value |-> expected_value,
     expected_values |-> expected_values, predicate |-> predicate,
     mapping_function |-> mapping_function]

\* C13: whatever invocations came before it, an invocation ends with the
\* outcome and the failure record that its own subject and expectation
\* determine; so an invocation repeated after others gives the same outcome
\* and the same diagnostics.
C13_StatelessAcrossCalls ==
    Finished => Outcome = ExpectedOutcome(Call)

\* contains_all_of passes on [1, 2, 1] after an equals_iterator that failed
\* on another subject and a contains_all_of that left indexes behind
C13_Witness ==
    /\ matcher = "contains_all_of"
    /\ Passed
    /\ subject = <<1, 2, 1>>
    /\ expected_values = <<1, 1, 2>>
    /\ read_subject = <<1>>
    /\ actual = <<1, 2>>

(* ------------------------------- C14 ---------------------------------- *)

\* what the invocation of a frame has ended with
FrameOutcome(fr) == [passed |-> fr.pc = "passed", failure |-> fr.failure]

\* C14: when two invocations on their own handles run on two threads,
\* under every interleaving of their steps each one ends with the outcome and
\* the failure record that its own subject and expectation determine, which
\* are those it ends with when it runs alone.
C14_InterleavingsDoNotInterfere ==
    /\ Finished => Outcome = ExpectedOutcome(Call)
    /\ parked.pc \in {"passed", "failed"} =>
           FrameOutcome(parked) = ExpectedOutcome(parked)

\* a contains_all_of has failed on one thread while a contains_all_of on
\* another subject is in the middle of its scan on the other thread
C14_Witness ==
    /\ matcher = "contains_all_of"
    /\ Failed
    /\ subject = <<1, 2>>
    /\ expected_values = <<1, 1, 2>>
    /\ failure.expected = "iterator to contain items <[1, 2, 1]>"
    /\ parked.pc = "inner"
    /\ parked.matcher = "contains_all_of"
    /\ parked.subject = <<1, 2, 1>>
    /\ parked.matched_indexes = <<0>>

(* ------------------------------- C21 ---------------------------------- *)

\* C21: on an empty subject contains(v) can be invoked with every v and ends
\* in a failure that reports the empty list as actual, and does_not_contain(v)
\* ends in a pass.
C21_EmptySubject ==
    /\ (matcher = "contains" /\ subject = <<>> /\ Finished) =>
           /\ Failed
           /\ failure = TwoPart("iterator to contain <" \o ToString(expected_value) \o ">",
                                "<[]>")
    /\ (matcher = "does_not_contain" /\ subject = <<>> /\ Finished) =>
           /\ Passed
           /\ failure = NoFailure
    /\ (matcher \in {"contains", "does_not_contain"} /\ subject = <<>>
            /\ pc = "check_iterator_contains") =>
           /\ actual = <<>>
           /\ ~contains_value
           /\ ENABLED check_iterator_contains_end

\* contains(2) on the empty subject
C21_Witness ==
    /\ matcher = "contains"
    /\ subject = <<>>
    /\ expected_value = 2
    /\ Failed
    /\ failure.expected = "iterator to contain <2>"
    /\ failure.actual = "<[]>"

(* ------------------------------- C22 ---------------------------------- *)

RECURSIVE GreedyAssignment(_, _, _)
\* for each of the first j expected values of e, in their order, the smallest
\* index (from 0) of s holding an equal element that no earlier expected
\* value was assigned, or -1 when there is none
GreedyAssignment(e, s, j) ==
    IF j = 0 THEN <<>>
    ELSE LET earlier == GreedyAssignment(e, s, j - 1)
             taken == {earlier[k] : k \in 1..(j - 1)}
             free == {i \in 0..(Len(s) - 1) : s[i + 1] = e[j] /\ i \notin taken}
         IN  Append(earlier,
                    IF free = {} THEN -1
                    ELSE CHOOSE i \in free : \A k \in free : i <= k)

RECURSIVE AssignedFrom(_, _, _, _)
\* from position j on: the assigned indexes (want = "index"), the expected
\* values that got one (want = "matched") or those that got none
\* (want = "unmatched"), in the order of e
AssignedFrom(g, e, j, want) ==
    IF j > Len(g) THEN <<>>
    ELSE (CASE want = "index" -> IF g[j] # -1 THEN <<g[j]>> ELSE <<>>
            [] want = "matched" -> IF g[j] # -1 THEN <<e[j]>> ELSE <<>>
            [] want = "unmatched" -> IF g[j] = -1 THEN <<e[j]>> ELSE <<>>)
             \o AssignedFrom(g, e, j + 1, want)

\* the indexes consumed so far, in the order they were assigned
Consumed == matched_indexes \o matched_indexes_holder

\* the number of expected values whose scan is over
Processed ==
    IF pc = "inner" THEN expected_pulls - 1
    ELSE IF expected_pulls > Len(expected_values) THEN Len(expected_values)
    ELSE expected_pulls

C22_Greedy ==
    matcher = "contains_all_of" =>
        LET g == GreedyAssignment(expected_values, subject, Processed)
        IN  /\ Consumed = AssignedFrom(g, expected_values, 1, "index")
            /\ matched_values = AssignedFrom(g, expected_values, 1, "matched")
            /\ unmatched_values = AssignedFrom(g, expected_values, 1, "unmatched")
            /\ pc = "inner" => expected = expected_values[expected_pulls]

\* a step of the matcher only extends what was assigned or recorded before it
C22_Extends ==
    pc \in {"outer", "inner"} =>
        /\ Len(Consumed') >= Len(Consumed)
        /\ Prefix(Consumed', Len(Consumed)) = Consumed
        /\ Len(matched_values') >= Len(matched_values)
        /\ Prefix(matched_values', Len(matched_values)) = matched_values
        /\ Len(unmatched_values') >= Len(unmatched_values)
        /\ Prefix(unmatched_values', Len(unmatched_values)) = unmatched_values

\* C22: contains_all_of processes the expected values in their order; each
\* one gets the smallest subject index with an equal element that no earlier
\* expected value was assigned, and is recorded as unmatched only when there is
\* no such index; and no step of the matcher revises what was assigned or
\* recorded before it.
C22_GreedyLeftmostNoBacktracking ==
    /\ []C22_Greedy
    /\ [][C22_Extends]_vars

\* the second 1 of the expected list takes index 2, the first one having
\* taken index 0, and the 2 then has index 1 left
C22_Witness ==
    /\ matcher = "contains_all_of"
    /\ Passed
    /\ subject = <<1, 2, 1>>
    /\ expected_values = <<1, 1, 2>>
    /\ Consumed = <<0, 2, 1>>

(* ------------------------------- C23 ---------------------------------- *)

\* the elements of a sequence
Range(s) == {s[i] : i \in 1..Len(s)}

C23_Consumed ==
    matcher = "contains_all_of" =>
        /\ \A j, k \in 1..Len(Consumed) : j # k => Consumed[j] # Consumed[k]
        /\ Range(Consumed) \subseteq 0..(Len(actual_values) - 1)
        /\ Len(Consumed) = Len(matched_values)
        /\ \A j \in 1..Len(Consumed) :
               actual_values[Consumed[j] + 1] = matched_values[j]
        /\ pc = "inner" =>
               /\ matched_indexes_holder = <<>>
               /\ Len(matched_indexes) = Len(matched_values)
               /\ FilteredIndexes(0) \cap Range(Consumed) = {}
        /\ Len(matched_indexes_holder) <= 1

\* a step of the matcher removes no index from the consumed ones
C23_Grows ==
    pc \in {"outer", "inner"} => Range(Consumed) \subseteq Range(Consumed')

\* C23: throughout contains_all_of the consumed indexes (matched_indexes
\* with matched_indexes_holder) are pairwise distinct indexes of the subject,
\* one per matched expected value, holding the element that value matched;
\* their set only grows; and when the scan for an expected value starts the
\* holder is empty and the filter leaves out every index consumed before.
C23_ConsumedIndexesDistinct ==
    /\ []C23_Consumed
    /\ [][C23_Grows]_vars

\* the scan for the third expected value starts with indexes 0 and 2 consumed
C23_Witness ==
    /\ matcher = "contains_all_of"
    /\ pc = "inner"
    /\ subject = <<1, 2, 1>>
    /\ expected_values = <<1, 1, 2>>
    /\ expected_pulls = 3
    /\ matched_indexes = <<0, 2>>
    /\ matched_indexes_holder = <<>>
    /\ FilteredIndexes(0) = {1}

(* ------------------------------- C24 ---------------------------------- *)

\* the number of elements of s equal to v
Occurrences(s, v) == Cardinality({i \in 1..Len(s) : s[i] = v})

\* C24: contains_all_of passes only if every value occurs in the subject at
\* least as often as in the expected list; with an expected list of k copies
\* of one value it passes iff the subject has at least k elements equal to
\* it; S=[1,2,3] with E=[1,1,3] fails.
C24_Multiplicity ==
    (matcher = "contains_all_of" /\ Finished) =>
        /\ Passed =>
               \A i \in 1..Len(expected_values) :
                   Occurrences(expected_values, expected_values[i])
                       <= Occurrences(subject, expected_values[i])
        /\ (\A i \in 1..Len(expected_values) : expected_values[i] = expected_values[1]) =>
               (Passed <=> \/ expected_values = <<>>
                           \/ Occurrences(subject, expected_values[1])
                                  >= Len(expected_values))
        /\ (subject = <<1, 2, 3>> /\ expected_values = <<1, 1, 3>>) => Failed

\* two copies of 1 are expected and the subject has one
C24_Witness ==
    /\ matcher = "contains_all_of"
    /\ Failed
    /\ subject = <<2, 1>>
    /\ expected_values = <<1, 1>>
    /\ unmatched_values = <<1>>

(* ------------------------------- C25 ---------------------------------- *)

\* the first index (from 0) at which a and b part: they hold unequal elements
\* there, or at least one of them has ended
DivergenceIndex(a, b) ==
    CHOOSE k \in 0..Len(a) :
        /\ k <= Len(b)
        /\ \A i \in 1..k : a[i] = b[i]
        /\ (k = Len(a) \/ k = Len(b) \/ a[k + 1] # b[k + 1])

C25_Pulls ==
    matcher = "equals_iterator" =>
        LET k == DivergenceIndex(subject, expected_values)
        IN  /\ actual_pulls = expected_pulls
            /\ actual_pulls <= k + 1
            /\ pc = "compare_iterators" => actual_pulls <= k
            /\ Finished => actual_pulls = k + 1

\* a step of the comparison pulls one item from each side
C25_LockStep ==
    pc = "compare_iterators" =>
        /\ actual_pulls' = actual_pulls + 1
        /\ expected_pulls' = expected_pulls + 1

\* C25: every step of equals_iterator pulls one item from the subject and
\* one from the expected side, so both have been pulled equally often; with
\* the first divergence at index k the comparison ends after k+1 pulls on each
\* side and never pulls an element beyond index k from either.
C25_LazyLockStep ==
    /\ []C25_Pulls
    /\ [][C25_LockStep]_vars

\* the pair at index 1 differs: two pulls on each side, the third elements
\* are never pulled
C25_Witness ==
    /\ matcher = "equals_iterator"
    /\ Failed
    /\ subject = <<1, 2, 2>>
    /\ expected_values = <<1, 1, 2>>
    /\ actual_pulls = 2
    /\ expected_pulls = 2

(* ------------------------------- C26 ---------------------------------- *)

\* a second assertion on the handle starts from the subject and the expected
\* values the first one was given, pulls the same elements and ends as the
\* first one did
C26_SecondAssertion ==
    parked.pc = "passed" =>
        /\ subject = parked.subject
        /\ subject_kind = parked.subject_kind
        /\ expected_value = parked.expected_value
        /\ expected_values = parked.expected_values
        /\ Finished =>
               /\ Outcome = FrameOutcome(parked)
               /\ Outcome = ExpectedOutcome(parked)
               /\ actual_pulls = parked.actual_pulls
               /\ expected_pulls = parked.expected_pulls
               /\ actual = parked.actual
               /\ actual_values = parked.actual_values
               /\ read_subject = parked.read_subject

\* a step of a matcher, and the start of a second assertion, leave the
\* subject of the handle and the caller's expectation as they were
C26_HandleUnchanged ==
    pc # "idle" =>
        /\ subject' = subject
        /\ subject_kind' = subject_kind
        /\ expected_value' = expected_value
        /\ expected_values' = expected_values

\* C26: no step of a matcher changes the subject of the handle or the
\* caller's expected values: the matcher advances an iterator it made from
\* them; so a second assertion on the same handle starts from the first
\* element of the whole sequence and ends with the outcome of the first.
C26_HandleAndExpectedUntouched ==
    /\ []C26_SecondAssertion
    /\ [][C26_HandleUnchanged]_vars

\* the second contains on an Iterator subject has pulled all three elements
\* again and passed again
C26_Witness ==
    /\ parked.pc = "passed"
    /\ running = 2
    /\ subject_kind = "Iterator"
    /\ matcher = "contains"
    /\ Passed
    /\ subject = <<1, 2, 1>>
    /\ actual = <<1, 2, 1>>
    /\ parked.actual = <<1, 2, 1>>

(* ---------------------------------------------------------------------- *)
(* C27                                                                    *)
(* ---------------------------------------------------------------------- *)

\* the work an invocation has done never exceeds its bound: contains,
\* does_not_contain and mapped_contains end having visited the n elements
\* of the subject, matching_contains calls the predicate at most n times,
\* equals_iterator takes at most min(n, m) + 1 steps, and contains_all_of
\* compares at most n * m pairs of elements
C27_Bounds ==
    LET n == Len(subject)
        m == Len(expected_values)
    IN  /\ matcher \in {"contains", "does_not_contain"} =>
              /\ Len(actual) <= n
              /\ Finished => Len(actual) = n
        /\ matcher = "mapped_contains" =>
              /\ Len(calls) <= n
              /\ Finished => Len(calls) = n /\ Len(mapped_vec) = n
        /\ matcher = "matching_contains" => Len(calls) <= n
        /\ matcher = "equals_iterator" =>
              /\ actual_pulls <= Min({n, m}) + 1
              /\ expected_pulls <= Min({n, m}) + 1
        /\ matcher = "contains_all_of" => comparisons <= n * m

\* C27: for a subject of length n and an expected list of length m every
\* matcher terminates, passing or raising, within its bound: n elements for
\* contains and mapped_contains, at most n predicate calls for
\* matching_contains, at most min(n, m) + 1 steps for equals_iterator and at
\* most n * m equality comparisons for contains_all_of.
C27_TerminatesWithinBounds ==
    []C27_Bounds /\ (pc \notin {"idle", "asserting"} ~> Finished)

\* contains_all_of has ended after comparing every expected value with every
\* element of the subject
C27_Witness ==
    /\ matcher = "contains_all_of"
    /\ Finished
    /\ Len(subject) = 3
    /\ Len(expected_values) = 3
    /\ comparisons = Len(subject) * Len(expected_values)

(* ---------------------------------------------------------------------- *)
(* C28                                                                    *)
(* ---------------------------------------------------------------------- *)

\* the greedy scan of e over s leaves no expected value without an index
GreedyPasses(s, e) ==
    LET g == GreedyAssignment(e, s, Len(e))
    IN  \A j \in 1..Len(e) : g[j] # -1

\* the sequences that hold the elements of s in some order
Permuted(s) ==
    {[i \in 1..Len(s) |-> s[p[i]]] : p \in Permutations(1..Len(s))}

\* C28: whether contains_all_of(S, E) passes does not change when E or S is
\* put in another order (the reported expected list is E in some order and
\* the reported actual list is S), and with an empty E it passes for every S,
\* the empty one included.
C28_OrderDoesNotMatter ==
    (matcher = "contains_all_of" /\ Finished) =>
        /\ Passed <=> GreedyPasses(subject, expected_values)
        /\ \A q \in Permuted(subject), p \in Permuted(expected_values) :
               GreedyPasses(q, p) <=> Passed
        /\ matched_values \o unmatched_values \in Permuted(expected_values)
        /\ Failed =>
               /\ failure.expected = "iterator to contain items <"
                      \o DebugVec(matched_values \o unmatched_values) \o ">"
               /\ failure.actual = "<" \o DebugVec(subject) \o ">"
        /\ expected_values = <<>> => Passed

\* contains_all_of has passed on a subject and an expected list that both
\* hold their elements in an order that is not sorted
C28_Witness ==
    /\ matcher = "contains_all_of"
    /\ Passed
    /\ subject = <<2, 1, 2>>
    /\ expected_values = <<2, 2, 1>>

(* ---------------------------------------------------------------------- *)
(* C29                                                                    *)
(* ---------------------------------------------------------------------- *)

\* the steps of the loop of compare_iterators that ran to their end: each
\* pulled one item of either iterator, and the step that ends the loop
\* pulled without completing
CompletedSteps == IF Finished THEN actual_pulls - 1 ELSE actual_pulls

\* the texts with which a side of a failure can report the trace `read`
ReportsOf(read) ==
    {IteratorItem(v, read) : v \in Values} \cup {CompletedIterator(read)}

\* C29: in every state of equals_iterator, after j completed steps both read
\* traces have length j, read_subject is A[0..j), read_expected is B[0..j)
\* and the two traces are equal element by element; so the two read traces
\* that a failure reports are equal.
C29_ReadTraces ==
    matcher = "equals_iterator" =>
        LET j == CompletedSteps
        IN  /\ expected_pulls = actual_pulls
            /\ Len(read_subject) = j
            /\ Len(read_expected) = j
            /\ read_subject = Prefix(subject, j)
            /\ read_expected = Prefix(expected_values, j)
            /\ \A i \in 1..j : read_subject[i] = read_expected[i]
            /\ Failed =>
                   /\ failure.expected \in ReportsOf(read_expected)
                   /\ failure.actual \in ReportsOf(read_subject)
                   /\ read_subject = read_expected

\* equals_iterator has failed on unequal items after two completed steps
C29_Witness ==
    /\ matcher = "equals_iterator"
    /\ Failed
    /\ CompletedSteps = 2
    /\ read_subject = <<1, 2>>
    /\ subject = <<1, 2, 1>>
    /\ expected_values = <<1, 2, 2>>
    /\ failure.expected = "Iterator item of <2> (read <[1, 2]>)"
    /\ failure.actual = "Iterator item of <1> (read <[1, 2]>)"

(* ---------------------------------------------------------------------- *)
(* C30                                                                    *)
(* ---------------------------------------------------------------------- *)

\* the invocation asks one of the four membership matchers for a single
\* value: contains(S, v), contains_all_of(S, [v]), matching_contains(S,
\* x -> x = v) or mapped_contains(S, identity, v)
AsksForOneValue ==
    \/ matcher = "contains"
    \/ matcher = "contains_all_of" /\ Len(expected_values) = 1
    \/ matcher = "matching_contains" /\ \E v \in Values : predicate = {v}
    \/ matcher = "mapped_contains" /\ mapping_function = IdentityFn

\* the value it asks for
AskedValue ==
    CASE matcher = "contains_all_of" -> expected_values[1]
      [] matcher = "matching_contains" -> CHOOSE v \in Values : predicate = {v}
      [] OTHER -> expected_value

\* C30: the four membership matchers agree on a single value: for every S
\* and v each of contains(S, v), contains_all_of(S, [v]),
\* matching_contains(S, x -> x = v) and mapped_contains(S, identity, v) passes
\* exactly when v occurs in S, so one passes iff any other does.
C30_MembershipMatchersAgree ==
    (Finished /\ AsksForOneValue) => (Passed <=> Occurs(subject, AskedValue))

\* mapped_contains with the identity has passed on a subject in which the
\* value it asks for occurs
C30_Witness ==
    /\ matcher = "mapped_contains"
    /\ mapping_function = IdentityFn
    /\ Passed
    /\ subject = <<1, 2>>
    /\ expected_value = 2
    /\ mapped_vec = subject

====
